---------------------------- MODULE Spec2Model ----------------------------
(***************************************************************************)
(* Check-in decision engine of gsc-rogue-functions.                        *)
(*                                                                         *)
(*   performCheckin / performBulkCheckin   _shared/handlers/checkin-handler.ts *)
(*   performEventCheckin                   _shared/handlers/event-checkin-handler.ts *)
(*   validatePlayersPresence               _shared/discord/validate-player-presence.ts *)
(*   checkPaymentStatus, checkDecklistStatus, getDiscordHandle,            *)
(*   updatePlayerStatus                    _shared/database/*.ts           *)
(*                                                                         *)
(* Text (handles, names, decklists) is a sequence of one-character         *)
(* strings, so that trim() and toLowerCase() are computed, not assumed.    *)
(* null, undefined and "" are all falsy in every test the code makes on    *)
(* text, and are all modelled by the empty sequence.                       *)
(***************************************************************************)
EXTENDS Integers, Sequences, FiniteSets, TLC

(***************************************************************************)
(* Identifiers                                                             *)
(***************************************************************************)

\* the registered users, at most MaxRoster of them
MaxRoster == 2

AllUsers == <<"u1", "u2", "u3", "u4">>
Users    == {AllUsers[i] : i \in 1..MaxRoster}
Events   == {"e1"}
Callers  == {"c1", "c2"}

(***************************************************************************)
(* Text helpers                                                            *)
(***************************************************************************)

\* String.prototype.toLowerCase on one character (the upper-case letters
\* that occur in the model's names).
LowerChar(c) ==
  CASE c = "A" -> "a"
    [] c = "B" -> "b"
    [] c = "E" -> "e"
    [] c = "L" -> "l"
    [] c = "M" -> "m"
    [] c = "O" -> "o"
    [] c = "P" -> "p"
    [] c = "R" -> "r"
    [] c = "Y" -> "y"
    [] OTHER   -> c

toLowerCase(s) == [i \in 1..Len(s) |-> LowerChar(s[i])]

RECURSIVE trimStart(_)
trimStart(s) ==
  IF s # <<>> /\ Head(s) = " " THEN trimStart(Tail(s)) ELSE s

RECURSIVE trimEnd(_)
trimEnd(s) ==
  IF s # <<>> /\ s[Len(s)] = " " THEN trimEnd(SubSeq(s, 1, Len(s) - 1)) ELSE s

\* String.prototype.trim
trim(s) == trimEnd(trimStart(s))

\* const normalize = (value) => (value ?? '').toString().trim().toLowerCase()
normalize(value) == toLowerCase(trim(value))

\* a find that returns the last element that matches
FindFirst_last(seq, hits) ==
  IF hits = {} THEN <<>>
  ELSE <<seq[CHOOSE i \in hits : \A j \in hits : j <= i]>>

\* Array.prototype.find: the first element, in order, whose index is in
\* hits, as a one-element sequence; <<>> stands for undefined.
FindFirst(seq, hits) ==
  IF hits = {} THEN <<>>
  ELSE <<seq[CHOOSE i \in hits : \A j \in hits : i <= j]>>

Range(seq) == {seq[i] : i \in 1..Len(seq)}

(***************************************************************************)
(* Presence resolver: _shared/discord/validate-player-presence.ts          *)
(***************************************************************************)

\* a list of online statuses without idle
ONLINE_STATUSES_noIdle == {"online", "dnd"}

\* const ONLINE_STATUSES = ['online', 'idle', 'dnd']
ONLINE_STATUSES == {"online", "idle", "dnd"}

\* status.toLowerCase() on a presence status
StatusToLowerCase(status) ==
  CASE status = "DND"    -> "dnd"
    [] status = "Online" -> "online"
    [] OTHER             -> status

\* A member's presence field: "none" when the roster entry embeds no presence.
getOnlineStatus(member) ==
  IF member.presence = "none" THEN "unknown" ELSE member.presence

memberMatchesNameish(member, target) ==
  LET normalizedTarget == normalize(target)
      all == <<normalize(member.username), normalize(member.nick),
               normalize(member.globalName)>>
      candidates == {all[i] : i \in 1..3} \ {<<>>}     \* .filter(Boolean)
  IN  normalizedTarget \in candidates

\* new Map(roles.map(role => [role.id, role])).get(roleId): the last entry
\* with that id, <<>> when there is none.
GuildRolesGet(guildRoles, roleId) ==
  LET hits == {i \in 1..Len(guildRoles) : guildRoles[i].id = roleId}
  IN  IF hits = {} THEN <<>>
      ELSE <<guildRoles[CHOOSE i \in hits : \A j \in hits : j <= i]>>

\* a role match that compares the role's name as it is written
memberHasMatchingRole_exactName(member, roleIds, roleNames, guildRoles) ==
  IF roleIds = {} /\ roleNames = {} THEN FALSE
  ELSE \E k \in 1..Len(member.roles) :
         LET roleId == member.roles[k]
             role   == GuildRolesGet(guildRoles, roleId)
         IN  \/ roleId \in roleIds
             \/ role # <<>> /\ role[1].name \in roleNames

memberHasMatchingRole(member, roleIds, roleNames, guildRoles) ==
  IF roleIds = {} /\ roleNames = {} THEN FALSE
  ELSE \E k \in 1..Len(member.roles) :
         LET roleId == member.roles[k]
             role   == GuildRolesGet(guildRoles, roleId)
         IN  \/ roleId \in roleIds
             \/ role # <<>> /\ normalize(role[1].name) \in roleNames

\* a ?? b on an identifier that may be undefined
Coalesce(a, b) == IF a = "undefined" THEN b ELSE a

\* a || b on text
OrElse(a, b) == IF a # <<>> THEN a ELSE b

(***************************************************************************)
(* One answer of the Discord API to one validatePlayersPresence call:      *)
(*   withPresences, plain  whether GET members?with_presences=true and     *)
(*                         GET members answer OK                           *)
(*   rolesOk               whether GET roles answers OK                    *)
(*   guild                 [members, roles] as Discord holds them          *)
(*   memberEp, userEp      per member id, the answer of GET                *)
(*                         guilds/g/members/id and of GET users/id:        *)
(*                         "fail" (not OK), "none" (OK, no presence),      *)
(*                         "throw" (fetch rejects) or a presence status    *)
(***************************************************************************)

StripPresence(member) == [member EXCEPT !.presence = "none"]

\* [thrown, members, requests]
fetchGuildMembers(api) ==
  IF api.withPresences
    THEN [thrown |-> FALSE, members |-> api.guild.members,
          requests |-> <<"members_with_presences">>]
  ELSE IF api.plain
    THEN [thrown |-> FALSE,
          members |-> [i \in 1..Len(api.guild.members) |->
                         StripPresence(api.guild.members[i])],
          requests |-> <<"members_with_presences", "members">>]
  ELSE [thrown |-> TRUE, members |-> <<>>,
        requests |-> <<"members_with_presences", "members">>]

\* fetchGuildRoles without its "if (!res.ok) throw"
fetchGuildRoles_tolerant(api) ==
  [thrown |-> FALSE, roles |-> IF api.rolesOk THEN api.guild.roles ELSE <<>>,
   requests |-> <<"roles">>]

\* [thrown, roles, requests]
fetchGuildRoles(api) ==
  IF api.rolesOk
    THEN [thrown |-> FALSE, roles |-> api.guild.roles, requests |-> <<"roles">>]
    ELSE [thrown |-> TRUE, roles |-> <<>>, requests |-> <<"roles">>]

\* a fallback whose catch goes on to the user endpoint
fetchMemberPresence_userAfterThrow(api, memberId) ==
  LET m == api.memberEp[memberId]
      u == api.userEp[memberId]
  IN  IF m \notin {"fail", "none", "throw"}
        THEN [presence |-> m, requests |-> <<"member">>]
      ELSE IF u \notin {"fail", "none", "throw"}
        THEN [presence |-> u, requests |-> <<"member", "user">>]
      ELSE [presence |-> "null", requests |-> <<"member", "user">>]

\* [presence, requests]: presence is a status, or "null"
fetchMemberPresence(api, memberId) ==
  LET m == api.memberEp[memberId]
      u == api.userEp[memberId]
  IN  IF m = "throw"
        THEN [presence |-> "null", requests |-> <<"member">>]
      ELSE IF m \notin {"fail", "none"}
        THEN [presence |-> m, requests |-> <<"member">>]
      ELSE IF u = "throw"
        THEN [presence |-> "null", requests |-> <<"member", "user">>]
      ELSE IF u \notin {"fail", "none"}
        THEN [presence |-> u, requests |-> <<"member", "user">>]
      ELSE [presence |-> "null", requests |-> <<"member", "user">>]

NotMember(target, error) ==
  [target |-> target, username |-> target, isMember |-> FALSE,
   isRole |-> FALSE, isPresent |-> FALSE, error |-> error]

\* lines 603-612: the embedded presence, or the answer of the fallback when
\* there is none: [status, requests]
MemberStatus(embedded, fallback) ==
  IF embedded # "unknown" THEN [status |-> embedded, requests |-> <<>>]
  ELSE [status |-> IF fallback.presence = "null" THEN "unknown" ELSE fallback.presence,
        requests |-> fallback.requests]

\* lines 596-621: the result for a target that is the member found.  In a
\* malformed payload member.roles is not iterable: the for...of of
\* memberHasMatchingRole throws a TypeError, caught per target.
ResolveMember(target, member, presence, guildRoles, roleIds, roleNames) ==
  IF member.malformed /\ ~(roleIds = {} /\ roleNames = {})
    THEN [result |-> NotMember(target, "TypeError"), requests |-> presence.requests]
    ELSE [result |-> [target |-> target,
                      username |-> OrElse(member.globalName,
                                     OrElse(member.nick,
                                       OrElse(member.username, target))),
                      isMember |-> TRUE,
                      isRole |-> memberHasMatchingRole(member, roleIds, roleNames,
                                                       guildRoles),
                      isPresent |-> /\ presence.status # "unknown"
                                    /\ StatusToLowerCase(presence.status)
                                         \in ONLINE_STATUSES,
                      error |-> ""],
          requests |-> presence.requests]

\* lines 582-594: found is members.find(...), <<>> when undefined
ResolveFound(target, found, guildRoles, roleIds, roleNames, api) ==
  IF found = <<>> THEN [result |-> NotMember(target, ""), requests |-> <<>>]
  ELSE ResolveMember(target, found[1],
                     MemberStatus(getOnlineStatus(found[1]),
                                  fetchMemberPresence(api, found[1].id)),
                     guildRoles, roleIds, roleNames)

\* The body of targets.map(async (target) => ...): [result, requests]
ResolveTarget(target, useId, members, guildRoles, roleIds, roleNames, api) ==
  ResolveFound(target,
               IF useId
                 THEN FindFirst(members,
                                {i \in 1..Len(members) : members[i].id = target})
                 ELSE FindFirst(members,
                                {i \in 1..Len(members) :
                                   memberMatchesNameish(members[i], target)}),
               guildRoles, roleIds, roleNames, api)

RECURSIVE Flatten(_)
Flatten(seqs) == IF seqs = <<>> THEN <<>> ELSE Head(seqs) \o Flatten(Tail(seqs))

\* what validatePlayersPresence throws: [thrown, error, results, requests]
Throw(error, requests) ==
  [thrown |-> TRUE, error |-> error, results |-> <<>>, requests |-> requests]

\* a resolution where the error of one target is the result of all
Resolved_failFast(each, fetched) ==
  LET failed == {i \in 1..Len(each) : each[i].result.error # ""}
  IN  [thrown |-> FALSE, error |-> "",
       results |-> [i \in 1..Len(each) |->
                      IF failed = {} THEN each[i].result
                      ELSE NotMember(each[i].result.target, "TypeError")],
       requests |-> fetched \o Flatten([i \in 1..Len(each) |-> each[i].requests])]

\* lines 579-637: each is the outcome of every target's callback
Resolved(each, fetched) ==
  [thrown |-> FALSE, error |-> "",
   results |-> [i \in 1..Len(each) |-> each[i].result],
   requests |-> fetched \o Flatten([i \in 1..Len(each) |-> each[i].requests])]

\* lines 571-641: m and r are the outcomes of fetchGuildMembers and
\* fetchGuildRoles, awaited together
ResolveTargets(options, roleIds, roleNames, m, r, api) ==
  IF m.thrown THEN Throw("Failed to fetch guild members", m.requests \o r.requests)
  ELSE IF r.thrown THEN Throw("Failed to fetch guild roles", m.requests \o r.requests)
  ELSE Resolved([i \in 1..Len(options.targets) |->
                   ResolveTarget(options.targets[i], options.useId, m.members,
                                 r.roles, roleIds, roleNames, api)],
                m.requests \o r.requests)

\* role names that fall back to "Player" when none is asked for
RoleNames_defaultPlayer(names) ==
  IF names = <<>> THEN {normalize(<<"P", "l", "a", "y", "e", "r">>)}
  ELSE {normalize(names[i]) : i \in 1..Len(names)} \ {<<>>}

\* lines 566-570: the role names asked for, normalized
RoleNames(names) == {normalize(names[i]) : i \in 1..Len(names)} \ {<<>>}

\* options: [targets, token, guildId, roleNames, roleIds, useId]; roleNames
\* and roleIds are [given, value] (undefined when not given).
\* processEnv: Deno.env.  Returns [thrown, error, results, requests].
validatePlayersPresence(options, processEnv, api) ==
  IF Coalesce(options.token, processEnv.DISCORD_BOT_TOKEN) \in {"undefined", ""}
    THEN Throw("Missing Discord bot token", <<>>)
  ELSE IF Coalesce(options.guildId, processEnv.DISCORD_GUILD_ID) \in {"undefined", ""}
    THEN Throw("Missing guild ID", <<>>)
  ELSE IF options.targets = <<>> THEN Throw("Provide at least one target", <<>>)
  ELSE ResolveTargets(
         options,
         Range(IF options.roleIds.given THEN options.roleIds.value ELSE <<>>) \ {""},
         RoleNames(IF options.roleNames.given THEN options.roleNames.value
                   ELSE IF processEnv.ROLE_NAME # <<>>
                     THEN <<processEnv.ROLE_NAME>> ELSE <<>>),
         fetchGuildMembers(api), fetchGuildRoles(api), api)

\* return results[0], or the error thrown: [thrown, error, result, requests]
FirstResult(all, target) ==
  [thrown |-> all.thrown, error |-> all.error, requests |-> all.requests,
   result |-> IF all.thrown THEN NotMember(target, all.error) ELSE all.results[1]]

\* validatePlayerPresence: validatePlayersPresence on [options.target],
\* returning results[0]
validatePlayerPresence(options, processEnv, api) ==
  FirstResult(validatePlayersPresence(
                [targets |-> <<options.target>>, token |-> options.token,
                 guildId |-> options.guildId, roleNames |-> options.roleNames,
                 roleIds |-> options.roleIds, useId |-> options.useId],
                processEnv, api),
              options.target)

(***************************************************************************)
(* Precondition checks: _shared/database/*.ts                              *)
(*                                                                         *)
(* A table maps a key to <<>> (no row) or <<row>>.  Every query has an     *)
(* outcome chosen by the environment: "ok", "error" (the client returns    *)
(* {data: null, error}) or "throw" (the awaited query rejects).            *)
(***************************************************************************)

QueryOutcomes == {"ok", "error", "throw"}

\* the row a query by key finds
Lookup(table, key) == IF key \in DOMAIN table THEN table[key] ELSE <<>>

\* a payment check that takes any linked payment record for a payment made
checkPaymentStatus_anyPayment(players, payments, userId, eventId, o1, o2) ==
  LET found == Lookup(players, <<userId, eventId>>)
  IN  IF o1 = "throw" THEN [thrown |-> TRUE, value |-> FALSE]
      ELSE IF o1 = "error" \/ found = <<>> THEN [thrown |-> FALSE, value |-> FALSE]
      ELSE
        LET player == found[1]
        IN  IF player.payment_status \in {"PAID", "FREE"}
              THEN [thrown |-> FALSE, value |-> TRUE]
            ELSE IF player.league_payment_id # ""
              THEN IF o2 = "throw" THEN [thrown |-> TRUE, value |-> FALSE]
                   ELSE [thrown |-> FALSE,
                         value |-> /\ o2 = "ok"
                                   /\ Lookup(payments, player.league_payment_id) # <<>>]
            ELSE [thrown |-> FALSE, value |-> FALSE]

\* [thrown, value]
checkPaymentStatus(players, payments, userId, eventId, o1, o2) ==
  LET found == Lookup(players, <<userId, eventId>>)
  IN  IF o1 = "throw" THEN [thrown |-> TRUE, value |-> FALSE]
      ELSE IF o1 = "error" \/ found = <<>> THEN [thrown |-> FALSE, value |-> FALSE]
      ELSE
        LET player == found[1]
        IN  IF player.payment_status \in {"PAID", "FREE"}
              THEN [thrown |-> FALSE, value |-> TRUE]
            ELSE IF player.league_payment_id # ""
              THEN IF o2 = "throw" THEN [thrown |-> TRUE, value |-> FALSE]
                   ELSE [thrown |-> FALSE,
                         value |-> /\ o2 = "ok"
                                   /\ Lookup(payments, player.league_payment_id) # <<>>
                                   /\ payments[player.league_payment_id][1].status
                                        = "COMPLETE"]
            ELSE [thrown |-> FALSE, value |-> FALSE]

\* [thrown, value]
checkDecklistStatus(players, userId, eventId, o) ==
  LET found == Lookup(players, <<userId, eventId>>)
  IN  IF o = "throw" THEN [thrown |-> TRUE, value |-> FALSE]
      ELSE IF o = "error" \/ found = <<>> THEN [thrown |-> FALSE, value |-> FALSE]
      ELSE [thrown |-> FALSE,
            value |-> found[1].decklist # <<>> /\ Len(trim(found[1].decklist)) > 0]

\* a lookup that prefers app_users
getDiscordHandle_appUsersFirst(leaguePlayers, appUsers, userId, o1, o2) ==
  LET leaguePlayer == IF o1 = "ok" THEN Lookup(leaguePlayers, userId) ELSE <<>>
      appUser      == IF o2 = "ok" THEN Lookup(appUsers, userId) ELSE <<>>
  IN  IF o2 = "throw" THEN [thrown |-> TRUE, value |-> <<>>, reads |-> 1]
      ELSE IF appUser # <<>> /\ appUser[1].discord_handle # <<>>
        THEN [thrown |-> FALSE, value |-> appUser[1].discord_handle, reads |-> 1]
      ELSE IF o1 = "throw" THEN [thrown |-> TRUE, value |-> <<>>, reads |-> 2]
      ELSE IF leaguePlayer # <<>> /\ leaguePlayer[1].discord_handle # <<>>
        THEN [thrown |-> FALSE, value |-> leaguePlayer[1].discord_handle, reads |-> 2]
      ELSE [thrown |-> FALSE, value |-> <<>>, reads |-> 2]

\* [thrown, value, reads]: value is the handle, <<>> for null
getDiscordHandle(leaguePlayers, appUsers, userId, o1, o2) ==
  LET leaguePlayer == IF o1 = "ok" THEN Lookup(leaguePlayers, userId) ELSE <<>>
      appUser      == IF o2 = "ok" THEN Lookup(appUsers, userId) ELSE <<>>
  IN  IF o1 = "throw" THEN [thrown |-> TRUE, value |-> <<>>, reads |-> 1]
      ELSE IF leaguePlayer # <<>> /\ leaguePlayer[1].discord_handle # <<>>
        THEN [thrown |-> FALSE, value |-> leaguePlayer[1].discord_handle, reads |-> 1]
      ELSE IF o2 = "throw" THEN [thrown |-> TRUE, value |-> <<>>, reads |-> 2]
      ELSE IF appUser # <<>> /\ appUser[1].discord_handle # <<>>
        THEN [thrown |-> FALSE, value |-> appUser[1].discord_handle, reads |-> 2]
      ELSE [thrown |-> FALSE, value |-> <<>>, reads |-> 2]

\* The value updatePlayerStatus writes to status
WrittenStatus == "CONFIRMED"

\* an update filtered by event_id only: every registration of the event
updatePlayerStatus_wholeEvent(players, userId, eventId, o) ==
  IF o = "throw" THEN [thrown |-> TRUE, value |-> FALSE, players |-> players]
  ELSE IF o = "error" THEN [thrown |-> FALSE, value |-> FALSE, players |-> players]
  ELSE [thrown |-> FALSE, value |-> TRUE,
        players |-> [k \in DOMAIN players |->
                       IF k[2] = eventId /\ players[k] # <<>>
                         THEN <<[players[k][1] EXCEPT !.status = "CONFIRMED"]>>
                         ELSE players[k]]]

\* an update that sends a CONFIRMED row back to PENDING
updatePlayerStatus_toggle(players, userId, eventId, o) ==
  LET key == <<userId, eventId>>
  IN  IF o = "throw" THEN [thrown |-> TRUE, value |-> FALSE, players |-> players]
      ELSE IF o = "error" THEN [thrown |-> FALSE, value |-> FALSE, players |-> players]
      ELSE [thrown |-> FALSE, value |-> TRUE,
            players |-> IF Lookup(players, key) = <<>> THEN players
                        ELSE [players EXCEPT
                                ![key] = <<[players[key][1] EXCEPT
                                              !.status =
                                                IF @ = "CONFIRMED" THEN "PENDING"
                                                ELSE "CONFIRMED"]>>]]

\* .update({status: 'CONFIRMED'}).eq("user_id", userId).eq("event_id", eventId):
\* every row with that key is updated, whatever its status; no row, no change
\* and no error.  (updated_at is a wall-clock stamp and is not modelled.)
\* [thrown, value, players]
updatePlayerStatus(players, userId, eventId, o) ==
  LET key == <<userId, eventId>>
  IN  IF o = "throw" THEN [thrown |-> TRUE, value |-> FALSE, players |-> players]
      ELSE IF o = "error" THEN [thrown |-> FALSE, value |-> FALSE, players |-> players]
      ELSE [thrown |-> FALSE, value |-> TRUE,
            players |-> IF Lookup(players, key) = <<>> THEN players
                        ELSE [players EXCEPT
                                ![key] = <<[players[key][1] EXCEPT
                                              !.status = WrittenStatus]>>]]

(***************************************************************************)
(* State                                                                   *)
(***************************************************************************)

VARIABLES
  league_event_players,  \* [<<user_id, event_id>> -> <<>> or <<row>>]
  league_events,         \* [event id -> <<>> or <<[status]>>]
  league_payments,       \* [payment id -> <<>> or <<[status]>>]
  league_players,        \* [user_id -> <<>> or <<[discord_handle]>>]
  app_users,             \* [user_id -> <<>> or <<[discord_handle]>>]
  processEnv,            \* Deno.env: DISCORD_BOT_TOKEN, DISCORD_GUILD_ID, ROLE_NAME
  ck,                    \* per caller, the performCheckin invocation in progress
  bulk,                  \* per caller, the performBulkCheckin / performEventCheckin run
  io,                    \* per caller, the I/O done so far by its current top-level call
  vp,                    \* the validatePlayersPresence call a caller makes directly
  rd,                    \* the precondition check a caller makes directly
  log                    \* history: the Discord calls made, when they are traced

db   == <<league_event_players, league_events, league_payments, league_players,
          app_users, processEnv>>
vars == <<league_event_players, league_events, league_payments, league_players,
          app_users, processEnv, ck, bulk, io, vp, rd, log>>

(***************************************************************************)
(* performCheckin: _shared/handlers/checkin-handler.ts, lines 71-192       *)
(***************************************************************************)

NoPresence == [isMember |-> FALSE, isRole |-> FALSE, isPresent |-> FALSE,
               username |-> <<>>]

NoRequest == [userId |-> "", eventId |-> "", discordHandle |-> <<>>, force |-> FALSE]
NoConfig  == [discordBotToken |-> "undefined", discordGuildId |-> "undefined",
              discordRoleName |-> <<>>]
NoResult  == [success |-> FALSE, message |-> [text |-> "", missing |-> <<>>],
              details |-> <<>>, error |-> ""]

\* pc: "idle", then the await the invocation is suspended at ("pay", "deck",
\* "handle", "discord", "write"), then "done" (returned result) or "thrown"
\* (rejected with error).  wrote: <<>> or <<[key, outcome, before, after]>>,
\* the status update this invocation issued, how the query ended and the
\* row before and after it.  presenceError: the error validatePlayerPresence
\* threw, "" when it threw none.  request and config: the arguments of the
\* invocation, kept until the caller takes the result.
IdleCk == [pc |-> "idle", request |-> NoRequest, config |-> NoConfig,
           hasPaid |-> FALSE, hasDecklist |-> FALSE, discordHandle |-> <<>>,
           discordPresence |-> NoPresence, presenceError |-> "", wrote |-> <<>>,
           result |-> NoResult, error |-> ""]

\* a validation that requires userId only
MissingIds_userOnly(userId, eventId) == userId = ""

\* if (!userId || !eventId)
MissingIds(userId, eventId) == userId = "" \/ eventId = ""

\* a decision rule that also gates on presence
allConditionsMet_andPresent(hasPaid, hasDecklist, discordPresence) ==
  /\ hasPaid /\ hasDecklist
  /\ discordPresence.isMember /\ discordPresence.isRole /\ discordPresence.isPresent

\* const allConditionsMet = hasPaid && hasDecklist && isMember && isRole
allConditionsMet(hasPaid, hasDecklist, discordPresence) ==
  hasPaid /\ hasDecklist /\ discordPresence.isMember /\ discordPresence.isRole

\* a status write that is attempted whatever the checks returned
ShouldUpdateStatus_always(all, force) == TRUE

\* if (allConditionsMet || force)
ShouldUpdateStatus(all, force) == all \/ force

\* a forced run that succeeds whatever the write did
Success_forced(all, force, statusUpdated) == all \/ force

\* success: allConditionsMet || (force && statusUpdated)
Success(all, force, statusUpdated) == all \/ (force /\ statusUpdated)

\* a list that names the role only for a guild member
missingConditions_roleIfMember(hasPaid, hasDecklist, discordPresence) ==
  (IF ~hasPaid THEN <<"payment">> ELSE <<>>)
  \o (IF ~hasDecklist THEN <<"decklist">> ELSE <<>>)
  \o (IF ~discordPresence.isMember THEN <<"Discord membership">>
      ELSE IF ~discordPresence.isRole THEN <<"Discord role">> ELSE <<>>)

\* the missingConditions array
missingConditions(hasPaid, hasDecklist, discordPresence) ==
  (IF ~hasPaid THEN <<"payment">> ELSE <<>>)
  \o (IF ~hasDecklist THEN <<"decklist">> ELSE <<>>)
  \o (IF ~discordPresence.isMember THEN <<"Discord membership">> ELSE <<>>)
  \o (IF ~discordPresence.isRole THEN <<"Discord role">> ELSE <<>>)

\* the catch of the outer try: lines 184-191
InternalError(c, error) ==
  [IdleCk EXCEPT !.pc = "done", !.request = c.request, !.config = c.config,
            !.wrote = c.wrote, !.presenceError = c.presenceError,
            !.result = [success |-> FALSE,
                        message |-> [text |-> "Checkin process failed due to internal error",
                                     missing |-> <<>>],
                        details |-> <<>>, error |-> error]]

\* the return of lines 171-182
Return(c, statusUpdated, message) ==
  [IdleCk EXCEPT !.pc = "done", !.request = c.request, !.config = c.config,
            !.wrote = c.wrote, !.presenceError = c.presenceError,
            !.result = [success |-> Success(allConditionsMet(c.hasPaid, c.hasDecklist,
                                                             c.discordPresence),
                                            c.request.force, statusUpdated),
                        message |-> message,
                        details |-> <<[userId |-> c.request.userId,
                                       eventId |-> c.request.eventId,
                                       hasPaid |-> c.hasPaid,
                                       hasDecklist |-> c.hasDecklist,
                                       discordPresence |-> c.discordPresence,
                                       statusUpdated |-> statusUpdated]>>,
                        error |-> ""]]

\* lines 146-169, up to the await of updatePlayerStatus: c has discordPresence
Decide(c) ==
  IF ShouldUpdateStatus(allConditionsMet(c.hasPaid, c.hasDecklist, c.discordPresence),
                        c.request.force)
    THEN [c EXCEPT !.pc = "write"]
    ELSE Return(c, FALSE,
                [text |-> "Checkin failed. Missing: ",
                 missing |-> missingConditions(c.hasPaid, c.hasDecklist,
                                               c.discordPresence)])

\* clientOk: whether createClient(config.supabaseUrl, config.supabaseServiceKey)
\* returns; it throws when either is empty.  In a bulk run it also stands for
\* any unexpected rejection of the per-player call, the case of the
\* per-player catch.
\* lines 75-92: the synchronous start of performCheckin.  createClient is
\* called outside the try, so an error it throws rejects the call.
performCheckin(request, config, clientOk) ==
  IF MissingIds(request.userId, request.eventId)
    THEN [IdleCk EXCEPT !.pc = "done", !.request = request, !.config = config,
                        !.result = [success |-> FALSE,
                                    message |-> [text |-> "Missing userId or eventId",
                                                 missing |-> <<>>],
                                    details |-> <<>>,
                                    error |-> "userId and eventId are required"]]
  ELSE IF ~clientOk
    THEN [IdleCk EXCEPT !.pc = "thrown", !.request = request, !.config = config,
                        !.error = "createClient failed"]
  ELSE [IdleCk EXCEPT !.pc = "pay", !.request = request, !.config = config]

(***************************************************************************)
(* performBulkCheckin: checkin-handler.ts, lines 200-339                   *)
(* performEventCheckin: event-checkin-handler.ts, lines 36-195             *)
(*                                                                         *)
(* The two differ in the fields of their result only; kind is "bulk" or    *)
(* "event".                                                                *)
(***************************************************************************)

NoBulkRequest == [eventId |-> "", force |-> FALSE]
NoBulkResult  == [success |-> FALSE, message |-> [text |-> "", status |-> ""],
                  details |-> <<>>, error |-> ""]

\* pc: "idle", the await the run is suspended at ("event", "roster",
\* "player": the performCheckin of players[idx]), "done" or "thrown".
IdleBulk == [pc |-> "idle", kind |-> "", request |-> NoBulkRequest,
             config |-> NoConfig, event |-> <<>>, players |-> <<>>, idx |-> 0,
             results |-> <<>>, successCount |-> 0, failedCount |-> 0,
             result |-> NoBulkResult, error |-> ""]

\* a return whose overall success requires a player checked in
BulkReturn_anySuccess(b, success, text, status, details, error) ==
  [IdleBulk EXCEPT !.pc = "done", !.kind = b.kind, !.request = b.request,
                   !.players = b.players,
                   !.result = [success |-> /\ success /\ details # <<>>
                                           /\ \E i \in 1..Len(details[1].results) :
                                                details[1].results[i].success,
                               message |-> [text |-> text, status |-> status],
                               details |-> details, error |-> error]]

BulkReturn(b, success, text, status, details, error) ==
  [IdleBulk EXCEPT !.pc = "done", !.kind = b.kind, !.request = b.request,
                   !.players = b.players,
                   !.result = [success |-> success,
                               message |-> [text |-> text, status |-> status],
                               details |-> details, error |-> error]]

\* the catch of the outer try
BulkInternalError(b, error) ==
  BulkReturn(b, FALSE,
             IF b.kind = "bulk" THEN "Bulk checkin process failed due to internal error"
             ELSE "Event checkin process failed due to internal error",
             "", <<>>, error)

\* the synchronous start: eventId is required; createClient is called
\* outside the try
performBulkCheckin(kind, request, config, clientOk) ==
  LET b == [IdleBulk EXCEPT !.kind = kind, !.request = request]
  IN  IF request.eventId = ""
        THEN BulkReturn(b, FALSE, "Missing eventId", "", <<>>, "eventId is required")
      ELSE IF ~clientOk
        THEN [b EXCEPT !.pc = "thrown", !.error = "createClient failed"]
      ELSE [b EXCEPT !.pc = "event", !.config = config]

\* a bulk run without the event-status gate
GateClosed_never(status, force) == FALSE

\* if (event.status !== 'REGISTRATION_CLOSED' && !force)
GateClosed(status, force) == status # "REGISTRATION_CLOSED" /\ ~force

\* a roster query without the status filter
RosterStatuses_any == {"PENDING", "CONFIRMED", "CANCELLED"}

\* .eq("event_id", eventId).in("status", ["PENDING", "CONFIRMED"])
RosterStatuses == {"PENDING", "CONFIRMED"}

\* the rows the roster query returns, as <<[user_id, status]>>, in the
\* order of AllUsers
RECURSIVE SelectPlayers(_, _, _)
SelectPlayers(players, eventId, i) ==
  IF i > Len(AllUsers) THEN <<>>
  ELSE LET u   == AllUsers[i]
           key == <<u, eventId>>
           hit == /\ key \in DOMAIN players
                  /\ players[key] # <<>>
                  /\ players[key][1].status \in RosterStatuses
       IN  (IF hit THEN <<[user_id |-> u, status |-> players[key][1].status]>>
            ELSE <<>>) \o SelectPlayers(players, eventId, i + 1)

\* a per-player request that inherits the bulk request's force
PlayerRequest_inheriting(player, eventId, force) ==
  [userId |-> player.user_id, eventId |-> eventId, discordHandle |-> <<>>,
   force |-> force]

\* the request of the per-player performCheckin: userId and eventId only
PlayerRequest(player, eventId, force) ==
  [userId |-> player.user_id, eventId |-> eventId, discordHandle |-> <<>>,
   force |-> FALSE]

\* the entry pushed for a player whose performCheckin returned result
ResultEntry(kind, player, result) ==
  IF kind = "bulk"
    THEN [userId |-> player.user_id, success |-> result.success,
          message |-> result.message, originalStatus |-> player.status]
    ELSE [userId |-> player.user_id, success |-> result.success,
          message |-> result.message, previousStatus |-> player.status,
          newStatus |-> IF result.success THEN "CONFIRMED" ELSE player.status]

\* a per-player catch that records the player as checked in
ErrorEntry_success(kind, player, error) ==
  IF kind = "bulk"
    THEN [userId |-> player.user_id, success |-> TRUE,
          message |-> [text |-> error, missing |-> <<>>],
          originalStatus |-> player.status]
    ELSE [userId |-> player.user_id, success |-> TRUE,
          message |-> [text |-> error, missing |-> <<>>],
          previousStatus |-> player.status, newStatus |-> "CONFIRMED"]

\* the entry pushed by the per-player catch
ErrorEntry(kind, player, error) ==
  IF kind = "bulk"
    THEN [userId |-> player.user_id, success |-> FALSE,
          message |-> [text |-> error, missing |-> <<>>],
          originalStatus |-> player.status]
    ELSE [userId |-> player.user_id, success |-> FALSE,
          message |-> [text |-> error, missing |-> <<>>],
          previousStatus |-> player.status, newStatus |-> player.status]

\* details that count every roster player as checked in
BulkDetails_allConfirmed(b, eventStatus, n, results, successCount, failedCount) ==
  IF b.kind = "bulk"
    THEN <<[eventId |-> b.request.eventId, eventStatus |-> eventStatus,
            totalPlayers |-> n, successfulCheckins |-> n, results |-> results]>>
    ELSE <<[eventId |-> b.request.eventId, eventStatus |-> eventStatus,
            totalPlayers |-> n, processedPlayers |-> n,
            confirmedPlayers |-> n, failedPlayers |-> failedCount,
            results |-> results]>>

\* the details of the final result
BulkDetails(b, eventStatus, n, results, successCount, failedCount) ==
  IF b.kind = "bulk"
    THEN <<[eventId |-> b.request.eventId, eventStatus |-> eventStatus,
            totalPlayers |-> n, successfulCheckins |-> successCount,
            results |-> results]>>
    ELSE <<[eventId |-> b.request.eventId, eventStatus |-> eventStatus,
            totalPlayers |-> n, processedPlayers |-> n,
            confirmedPlayers |-> successCount, failedPlayers |-> failedCount,
            results |-> results]>>

(***************************************************************************)
(* Inputs                                                                  *)
(***************************************************************************)

Bob    == <<"B", "o", "b">>
Pat    == <<"P", "a", "t">>
Player == <<"P", "l", "a", "y", "e", "r">>

\* what Discord may hold: [members, roles]
Member(id, username, nick, globalName, roles, presence) ==
  [id |-> id, username |-> username, nick |-> nick, globalName |-> globalName,
   roles |-> roles, presence |-> presence, malformed |-> FALSE]

Guilds ==
  { \* Bob has the role, no embedded presence; Pat (by nick) has no role
    [members |-> <<Member(<<"m", "1">>, Bob, <<>>, <<>>, <<"r1">>, "none"),
                   Member(<<"m", "2">>, <<"p">>, Pat, <<>>, <<>>, "idle")>>,
     roles   |-> <<[id |-> "r1", name |-> Player]>>],
    \* Bob is no member; Pat (by global name) has the role
    [members |-> <<Member(<<"m", "2">>, <<"p">>, <<>>, <<"p", "a", "t", " ">>, <<"r1">>, "offline")>>,
     roles   |-> <<[id |-> "r1", name |-> <<"p", "l", "a", "y", "e", "r">>]>>],
    \* Bob's role has another name
    [members |-> <<Member(<<"m", "1">>, <<"b", "o", "b">>, <<>>, <<>>, <<"r1">>, "online")>>,
     roles   |-> <<[id |-> "r1", name |-> <<"A">>]>>] }

MemberIds == {<<"m", "1">>, <<"m", "2">>, <<"m", "3">>}

\* the answers of the two presence endpoints
PresenceAnswers == {<<"online", "none">>, <<"fail", "DND">>, <<"throw", "online">>,
                    <<"none", "offline">>}

Api(withPresences, plain, rolesOk, guild, answers) ==
  [withPresences |-> withPresences, plain |-> plain, rolesOk |-> rolesOk,
   guild |-> guild, memberEp |-> [m \in MemberIds |-> answers[1]],
   userEp |-> [m \in MemberIds |-> answers[2]]]

NoGuild == [members |-> <<>>, roles |-> <<>>]

\* the answers of Discord to one call: the member list (with presences, or
\* only without) and the role list arrive, or one of the two fails
Apis ==
  { Api(w, TRUE, TRUE, g, a) : w \in BOOLEAN, g \in Guilds, a \in PresenceAnswers }
  \cup { Api(FALSE, FALSE, TRUE, NoGuild, <<"fail", "fail">>),
         Api(TRUE, TRUE, FALSE, NoGuild, <<"fail", "fail">>),
         Api(FALSE, TRUE, FALSE, NoGuild, <<"fail", "fail">>) }

Configs ==
  { [discordBotToken |-> "tok", discordGuildId |-> "g1", discordRoleName |-> Player],
    [discordBotToken |-> "",    discordGuildId |-> "g1", discordRoleName |-> Player],
    [discordBotToken |-> "tok", discordGuildId |-> "undefined", discordRoleName |-> Player],
    [discordBotToken |-> "tok", discordGuildId |-> "g1", discordRoleName |-> <<>>] }

BulkRequests == {[eventId |-> e, force |-> f] : e \in Events \cup {""}, f \in BOOLEAN}

BulkConfigs ==
  { [discordBotToken |-> "tok", discordGuildId |-> "g1", discordRoleName |-> Player] }

Requests ==
  { [userId |-> u, eventId |-> e, discordHandle |-> h, force |-> f]
    : u \in Users \cup {""}, e \in Events \cup {""},
      h \in {<<>>, <<" ", "B", "O", "B">>}, f \in BOOLEAN }

Row(status, payment_status, league_payment_id, decklist) ==
  [status |-> status, payment_status |-> payment_status,
   league_payment_id |-> league_payment_id, decklist |-> decklist]

\* the registrations a user may start with
RowsOf(u) ==
  IF u = "u1"
    THEN { <<>>,
           <<Row("PENDING", "PAID", "", <<"d">>)>>,
           <<Row("PENDING", "PENDING", "payP", <<"d">>)>>,
           <<Row("CONFIRMED", "FREE", "", <<" ">>)>>,
           <<Row("CANCELLED", "PENDING", "payC", <<"d", " ">>)>> }
  ELSE IF u = "u2"
    THEN { <<Row("PENDING", "PENDING", "payC", <<"d">>)>>,
           <<Row("CONFIRMED", "PAID", "", <<>>)>>,
           <<Row("CANCELLED", "FREE", "", <<"d">>)>> }
  ELSE { <<Row("PENDING", "FREE", "", <<" ", "d">>)>> }

Registrations ==
  {f \in [Users \X Events -> UNION {RowsOf(u) : u \in Users}] :
     \A u \in Users, e \in Events : f[<<u, e>>] \in RowsOf(u)}

\* an event no run is asked about, and everybody's registration for it
OtherEvents == {"e2"}

OtherRegistrations ==
  [k \in Users \X OtherEvents |-> <<Row("PENDING", "PAID", "", <<"d">>)>>]

EventStatuses == {"REGISTRATION_CLOSED", "REGISTRATION_OPEN"}

Handle(h) == IF h = <<>> THEN <<>> ELSE <<[discord_handle |-> h]>>

\* u1: handle in league_players (app_users is shadowed); u2: only in
\* app_users; the others: none
InitLeaguePlayers ==
  [u \in Users |-> IF u = "u1" THEN Handle(<<"b", "o", "b">>)
                   ELSE IF u = "u2" THEN <<[discord_handle |-> <<>>]>> ELSE <<>>]
InitAppUsers ==
  [u \in Users |-> IF u = "u1" THEN Handle(Pat)
                   ELSE IF u = "u2" THEN Handle(<<"p", "a", "t">>) ELSE <<>>]

\* pc: "idle" or "done"; options and api: the call's arguments and the
\* answers of Discord; out: what the call returned or threw
IdleVp == [pc |-> "idle", options |-> <<>>, api |-> <<>>, out |-> <<>>]

\* pc: "idle" or "done"; fn: the check called; userId, eventId: its
\* arguments; o1, o2: the outcomes of its queries; out: what it returned or
\* threw
IdleRd == [pc |-> "idle", fn |-> "", userId |-> "", eventId |-> "", o1 |-> "",
           o2 |-> "", out |-> <<>>]

InitWith(events, roleNameDefaults, traced) ==
  /\ league_event_players \in {f @@ OtherRegistrations : f \in Registrations}
  /\ league_events \in events
  /\ league_payments = [id \in {"payC", "payP"} |->
                          <<[status |-> IF id = "payC" THEN "COMPLETE" ELSE "PENDING"]>>]
  /\ league_players = InitLeaguePlayers
  /\ app_users = InitAppUsers
  /\ processEnv \in {[DISCORD_BOT_TOKEN |-> "undefined", DISCORD_GUILD_ID |-> "g1",
                       ROLE_NAME |-> rn] : rn \in roleNameDefaults}
  /\ ck = [p \in Callers |-> IdleCk]
  /\ bulk = [p \in Callers |-> IdleBulk]
  /\ io = [p \in Callers |-> {}]
  /\ vp = IdleVp
  /\ rd = IdleRd
  /\ log \in {[on |-> t, calls |-> <<>>] : t \in traced}

\* the single check-in engine: one event, registration closed
Init ==
  InitWith({[e \in Events |-> <<[status |-> "REGISTRATION_CLOSED"]>>]}, {<<>>},
           {FALSE})

\* the bulk orchestrators: the event in any status, or absent
InitBulk ==
  InitWith([Events -> {<<>>} \cup {<<[status |-> st]>> : st \in EventStatuses}],
           {<<>>}, {FALSE})

(***************************************************************************)
(* performCheckin, one action per await                                    *)
(***************************************************************************)

\* A caller invokes performCheckin(request, config).
Checkin_Call(p) ==
  /\ ck[p].pc = "idle" /\ bulk[p].pc = "idle"
  /\ \E request \in Requests, config \in Configs, clientOk \in BOOLEAN :
       ck' = [ck EXCEPT ![p] = performCheckin(request, config, clientOk)]
  /\ UNCHANGED <<db, vp, rd, log, bulk, io>>

\* The caller takes the result, or the error, of its performCheckin.
Checkin_Return(p) ==
  /\ ck[p].pc \in {"done", "thrown"} /\ bulk[p].pc = "idle"
  /\ ck' = [ck EXCEPT ![p] = IdleCk]
  /\ io' = [io EXCEPT ![p] = {}]
  /\ log' = [log EXCEPT !.calls = <<>>]
  /\ UNCHANGED <<db, vp, rd, bulk>>

\* line 96: hasPaid = await checkPaymentStatus(...)
Checkin_Payment(p) ==
  /\ ck[p].pc = "pay"
  /\ \E o1 \in QueryOutcomes, o2 \in QueryOutcomes :
       LET c == ck[p]
           r == checkPaymentStatus(league_event_players, league_payments,
                                   c.request.userId, c.request.eventId, o1, o2)
       IN  ck' = [ck EXCEPT ![p] =
                    IF r.thrown THEN InternalError(c, "checkPaymentStatus")
                    ELSE [c EXCEPT !.pc = "deck", !.hasPaid = r.value]]
  /\ io' = [io EXCEPT ![p] = @ \cup {"read_player"}]
  /\ UNCHANGED <<db, vp, rd, log, bulk>>

\* lines 99-102: hasDecklist = await checkDecklistStatus(...); the handle
\* lookup is skipped when the request carries a handle
Checkin_Decklist(p) ==
  /\ ck[p].pc = "deck"
  /\ \E o \in QueryOutcomes :
       LET c == ck[p]
           r == checkDecklistStatus(league_event_players, c.request.userId,
                                    c.request.eventId, o)
       IN  ck' = [ck EXCEPT ![p] =
                    IF r.thrown THEN InternalError(c, "checkDecklistStatus")
                    ELSE IF c.request.discordHandle # <<>>
                      THEN [c EXCEPT !.pc = "discord", !.hasDecklist = r.value,
                                     !.discordHandle = c.request.discordHandle]
                    ELSE [c EXCEPT !.pc = "handle", !.hasDecklist = r.value]]
  /\ io' = [io EXCEPT ![p] = @ \cup {"read_player"}]
  /\ UNCHANGED <<db, vp, rd, log, bulk>>

\* line 102: await getDiscordHandle(...); lines 113, 138-144: no handle, no
\* Discord request.  io notes whether a query of the lookup did not answer.
Checkin_Handle(p) ==
  /\ ck[p].pc = "handle"
  /\ \E o1 \in QueryOutcomes, o2 \in QueryOutcomes :
       LET c == ck[p]
           r == getDiscordHandle(league_players, app_users, c.request.userId, o1, o2)
       IN
         /\ ck' = [ck EXCEPT ![p] =
                    IF r.thrown THEN InternalError(c, "getDiscordHandle")
                    ELSE IF r.value # <<>>
                      THEN [c EXCEPT !.pc = "discord", !.discordHandle = r.value]
                    ELSE Decide([c EXCEPT !.discordPresence = NoPresence])]
         /\ io' = [io EXCEPT ![p] =
                    @ \cup {"read_handle"}
                      \cup (IF o1 # "ok" \/ (r.reads = 2 /\ o2 # "ok")
                              THEN {"read_handle_failed"} ELSE {})]
  /\ UNCHANGED <<db, vp, rd, log, bulk>>

\* lines 105-111, 127-136: the options performCheckin passes
PresenceOptions(c) ==
  [target |-> c.discordHandle, token |-> c.config.discordBotToken,
   guildId |-> c.config.discordGuildId,
   roleNames |-> IF c.config.discordRoleName # <<>>
                   THEN [given |-> TRUE, value |-> <<c.config.discordRoleName>>]
                   ELSE [given |-> FALSE, value |-> <<>>],
   roleIds |-> [given |-> FALSE, value |-> <<>>],
   useId |-> FALSE]

\* lines 121-136: the presence kept from the outcome r of
\* validatePlayerPresence; the catch keeps the all-false default
WithPresence(c, r) ==
  [c EXCEPT !.discordPresence = IF r.thrown THEN NoPresence
                                ELSE [isMember |-> r.result.isMember,
                                      isRole |-> r.result.isRole,
                                      isPresent |-> r.result.isPresent,
                                      username |-> r.result.username],
            !.presenceError = r.error]

\* a call that works on the guild the first call of the run fetched
DiscordAnswers_cached(now, calls) ==
  IF calls = <<>> THEN now ELSE [now EXCEPT !.guild = calls[1].guild]

\* lines 573-576: the members and the roles a call works on are the ones
\* Discord answers to the requests of that call, whatever it answered to the
\* calls before
DiscordAnswers(now, calls) == now

\* history: the call of validatePlayerPresence that caller p makes for c,
\* the guild Discord held then, the requests made and the presence kept
Traced(p, c, now, r) ==
  [caller |-> p, userId |-> c.request.userId, handle |-> c.discordHandle,
   token |-> c.config.discordBotToken, guild |-> now.guild,
   fetched |-> ~r.thrown, requests |-> r.requests,
   isMember |-> ~r.thrown /\ r.result.isMember]

\* lines 113-137: await validatePlayerPresence(...), its errors caught
Checkin_Discord(p) ==
  /\ ck[p].pc = "discord"
  /\ \E now \in Apis :
       \E api \in {DiscordAnswers(now, log.calls)} :
         \E r \in {validatePlayerPresence(PresenceOptions(ck[p]), processEnv, api)} :
           /\ ck' = [ck EXCEPT ![p] = Decide(WithPresence(ck[p], r))]
           /\ io' = [io EXCEPT ![p] =
                      IF r.requests # <<>> THEN @ \cup {"discord"} ELSE @]
           /\ log' = IF log.on
                       THEN [log EXCEPT !.calls = Append(@, Traced(p, ck[p], now, r))]
                       ELSE log
  /\ UNCHANGED <<db, vp, rd, bulk>>

\* lines 157-160: statusUpdated = await updatePlayerStatus(...)
Checkin_UpdateStatus(p) ==
  /\ ck[p].pc = "write"
  /\ \E o \in QueryOutcomes :
       LET c   == ck[p]
           key == <<c.request.userId, c.request.eventId>>
           r   == updatePlayerStatus(league_event_players, c.request.userId,
                                     c.request.eventId, o)
           w   == [c EXCEPT !.wrote = <<[key |-> key, outcome |-> o,
                                         before |-> Lookup(league_event_players, key),
                                         after |-> Lookup(r.players, key)]>>]
       IN  /\ league_event_players' = r.players
           /\ ck' = [ck EXCEPT ![p] =
                      IF r.thrown THEN InternalError(w, "updatePlayerStatus")
                      ELSE Return(w, r.value,
                             [text |-> IF r.value
                                         THEN "Player successfully checked in and confirmed"
                                         ELSE "All conditions met but failed to update status",
                              missing |-> <<>>])]
  /\ io' = [io EXCEPT ![p] = @ \cup {"write_status"}]
  /\ UNCHANGED <<league_events, league_payments, league_players, app_users,
                 processEnv, bulk, vp, rd, log>>

\* A caller invokes performBulkCheckin or performEventCheckin.
Bulk_Call(p) ==
  /\ ck[p].pc = "idle" /\ bulk[p].pc = "idle"
  /\ \E kind \in {"bulk", "event"}, request \in BulkRequests, config \in BulkConfigs,
        clientOk \in BOOLEAN :
       bulk' = [bulk EXCEPT ![p] = performBulkCheckin(kind, request, config, clientOk)]
  /\ UNCHANGED <<db, vp, rd, log, ck, io>>

\* The caller takes the result, or the error, of its bulk run.
Bulk_Return(p) ==
  /\ bulk[p].pc \in {"done", "thrown"}
  /\ bulk' = [bulk EXCEPT ![p] = IdleBulk]
  /\ io' = [io EXCEPT ![p] = {}]
  /\ log' = [log EXCEPT !.calls = <<>>]
  /\ UNCHANGED <<db, vp, rd, ck>>

\* Step 1 and 2: the event is read and its status checked
Bulk_Event(p) ==
  /\ bulk[p].pc = "event"
  /\ \E o \in QueryOutcomes :
       LET b     == bulk[p]
           event == IF o = "ok" THEN Lookup(league_events, b.request.eventId)
                    ELSE <<>>
       IN  bulk' = [bulk EXCEPT ![p] =
                      IF o = "throw" THEN BulkInternalError(b, "league_events")
                      ELSE IF event = <<>>
                        THEN BulkReturn(b, FALSE, "Event not found", "", <<>>,
                                        "Event does not exist")
                      ELSE IF GateClosed(event[1].status, b.request.force)
                        THEN BulkReturn(b, FALSE,
                               "Event status is ${event.status}, expected REGISTRATION_CLOSED",
                               event[1].status, <<>>,
                               "Event must be in REGISTRATION_CLOSED status to run check-ins")
                      ELSE [b EXCEPT !.pc = "roster", !.event = event]]
  /\ io' = [io EXCEPT ![p] = @ \cup {"read_event"}]
  /\ UNCHANGED <<db, vp, rd, log, ck>>

\* an empty roster reported as a failure
EmptyRoster_failure(b) ==
  BulkReturn(b, FALSE, "No players found with PENDING or CONFIRMED status", "",
             <<>>, "No players found")

\* if (!players || players.length === 0): success with zero counts
EmptyRoster(b) ==
  BulkReturn(b, TRUE, "No players found with PENDING or CONFIRMED status", "",
             BulkDetails(b, b.event[1].status, 0, <<>>, 0, 0), "")

\* Step 3: the roster is read; with players, the first performCheckin starts
Bulk_Roster(p) ==
  /\ bulk[p].pc = "roster"
  /\ \E o \in QueryOutcomes, clientOk \in BOOLEAN :
       LET b       == bulk[p]
           players == SelectPlayers(league_event_players, b.request.eventId, 1)
       IN  IF o = "throw"
             THEN /\ bulk' = [bulk EXCEPT ![p] =
                               BulkInternalError(b, "league_event_players")]
                  /\ ck' = ck
           ELSE IF o = "error"
             THEN /\ bulk' = [bulk EXCEPT ![p] =
                               BulkReturn(b, FALSE, "Failed to fetch registered players",
                                          "", <<>>, "playersError")]
                  /\ ck' = ck
           ELSE IF players = <<>>
             THEN /\ bulk' = [bulk EXCEPT ![p] = EmptyRoster(b)]
                  /\ ck' = ck
           ELSE /\ bulk' = [bulk EXCEPT ![p] =
                             [b EXCEPT !.pc = "player", !.players = players, !.idx = 1]]
                /\ ck' = [ck EXCEPT ![p] =
                           performCheckin(PlayerRequest(players[1], b.request.eventId,
                                                        b.request.force),
                                          b.config, clientOk)]
  /\ io' = [io EXCEPT ![p] = @ \cup {"read_roster"}]
  /\ UNCHANGED <<db, vp, rd, log>>

\* a loop that goes on without awaiting the check-in it started
Awaited_not(c) == TRUE

\* await performCheckin(...): the loop goes on when the call has returned or
\* thrown
Awaited(c) == c.pc \in {"done", "thrown"}

\* Step 4: the performCheckin of players[idx] has returned or thrown; its
\* entry is pushed, and the next player's starts or the run returns
Bulk_Player(p) ==
  /\ bulk[p].pc = "player"
  /\ Awaited(ck[p])
  /\ \E clientOk \in BOOLEAN :
       LET b       == bulk[p]
           c       == ck[p]
           player  == b.players[b.idx]
           entry   == IF c.pc = "done" THEN ResultEntry(b.kind, player, c.result)
                      ELSE ErrorEntry(b.kind, player, c.error)
           results == Append(b.results, entry)
           ok      == IF entry.success THEN b.successCount + 1 ELSE b.successCount
           failed  == IF entry.success THEN b.failedCount ELSE b.failedCount + 1
           n       == Len(b.players)
       IN  IF b.idx < n
             THEN /\ bulk' = [bulk EXCEPT ![p] =
                               [b EXCEPT !.idx = b.idx + 1, !.results = results,
                                         !.successCount = ok, !.failedCount = failed]]
                  /\ ck' = [ck EXCEPT ![p] =
                             performCheckin(PlayerRequest(b.players[b.idx + 1],
                                                          b.request.eventId,
                                                          b.request.force),
                                            b.config, clientOk)]
             ELSE /\ bulk' = [bulk EXCEPT ![p] =
                               BulkReturn(b, TRUE,
                                 IF b.kind = "bulk" THEN "Bulk checkin completed"
                                 ELSE "Event checkin completed", "",
                                 BulkDetails(b, b.event[1].status, n, results, ok,
                                             IF b.kind = "bulk" THEN 0 ELSE failed),
                                 "")]
                  /\ ck' = [ck EXCEPT ![p] = IdleCk]
  /\ UNCHANGED <<db, vp, rd, log, io>>

NextBulk ==
  \E p \in {"c1"} :
    \/ Bulk_Call(p)
    \/ Bulk_Return(p)
    \/ Bulk_Event(p)
    \/ Bulk_Roster(p)
    \/ Bulk_Player(p)
    \/ Checkin_Payment(p)
    \/ Checkin_Decklist(p)
    \/ Checkin_Handle(p)
    \/ Checkin_Discord(p)
    \/ Checkin_UpdateStatus(p)

SpecBulk == InitBulk /\ [][NextBulk]_vars

Next ==
  \E p \in {"c1"} :
    \/ Checkin_Call(p)
    \/ Checkin_Return(p)
    \/ Checkin_Payment(p)
    \/ Checkin_Decklist(p)
    \/ Checkin_Handle(p)
    \/ Checkin_Discord(p)
    \/ Checkin_UpdateStatus(p)

Spec == Init /\ [][Next]_vars

\* single check-ins and bulk runs, one after the other
NextEngine ==
  \E p \in {"c1"} :
    \/ Checkin_Call(p)
    \/ Checkin_Return(p)
    \/ Bulk_Call(p)
    \/ Bulk_Return(p)
    \/ Bulk_Event(p)
    \/ Bulk_Roster(p)
    \/ Bulk_Player(p)
    \/ Checkin_Payment(p)
    \/ Checkin_Decklist(p)
    \/ Checkin_Handle(p)
    \/ Checkin_Discord(p)
    \/ Checkin_UpdateStatus(p)

SpecEngine == Init /\ [][NextEngine]_vars

(***************************************************************************)
(* Concurrent check-ins: every caller runs one performCheckin, their       *)
(* awaits interleaved in any order.                                        *)
(***************************************************************************)

\* the registrations the concurrent runs start from
ConcRegistrations ==
  [k \in Users \X Events |->
     IF k[1] = "u1" THEN <<Row("PENDING", "PAID", "", <<"d">>)>>
     ELSE IF k[1] = "u2" THEN <<Row("CANCELLED", "FREE", "", <<"d">>)>>
     ELSE <<Row("PENDING", "FREE", "", <<" ", "d">>)>>]
  @@ OtherRegistrations

InitConc ==
  /\ InitWith({[e \in Events |-> <<[status |-> "REGISTRATION_CLOSED"]>>]}, {<<>>},
              {FALSE})
  /\ league_event_players = ConcRegistrations

ConcRequests ==
  { [userId |-> u, eventId |-> e, discordHandle |-> <<>>, force |-> f]
    : u \in Users, e \in Events, f \in BOOLEAN }

\* A caller invokes performCheckin while others may be in progress.
Conc_Call(p) ==
  /\ ck[p].pc = "idle" /\ bulk[p].pc = "idle"
  /\ \E request \in ConcRequests, config \in BulkConfigs :
       ck' = [ck EXCEPT ![p] = performCheckin(request, config, TRUE)]
  /\ UNCHANGED <<db, vp, rd, log, bulk, io>>

NextConc ==
  \E p \in Callers :
    \/ Conc_Call(p)
    \/ Checkin_Payment(p)
    \/ Checkin_Decklist(p)
    \/ Checkin_Handle(p)
    \/ Checkin_Discord(p)
    \/ Checkin_UpdateStatus(p)

SpecConc == InitConc /\ [][NextConc]_vars

(***************************************************************************)
(* Bulk runs with their Discord calls traced                               *)
(***************************************************************************)

InitFresh ==
  InitWith({[e \in Events |-> <<[status |-> "REGISTRATION_CLOSED"]>>]}, {<<>>},
           {TRUE})

SpecFresh == InitFresh /\ [][NextBulk]_vars


(***************************************************************************)
(* validatePlayersPresence called directly, on rosters where several       *)
(* members answer to one target                                            *)
(***************************************************************************)

MaxTargets == 2

\* Two members answer to "bob" (by username, by nick), one has the id of
\* the other as username; role r2 is held but not named Player, r9 is held
\* but unknown to the guild.
ResolveMembers ==
  << Member(<<"m", "1">>, Bob, <<>>, <<>>, <<"r1">>, "online"),
     Member(<<"m", "2">>, <<"m", "1">>, <<" ", "B", "O", "B">>, Pat, <<"r9", "r2">>, "idle"),
     Member(<<"m", "3">>, <<"p">>, <<>>, <<"b", "o", "b", " ">>, <<>>, "offline") >>

ResolveGuilds ==
  { [members |-> ResolveMembers,
     roles   |-> <<[id |-> "r1", name |-> Player], [id |-> "r2", name |-> <<"A">>]>>],
    [members |-> <<[ResolveMembers[3] EXCEPT !.presence = "none"],
                   ResolveMembers[2], ResolveMembers[1]>>,
     roles   |-> <<[id |-> "r2", name |-> <<"P", "L", "A", "Y", "E", "R">>],
                   [id |-> "r1", name |-> <<"A">>]>>],
    [members |-> <<[ResolveMembers[2] EXCEPT !.presence = "dnd"]>>, roles |-> <<>>],
    \* a payload where Bob's roles are not a list
    [members |-> <<[ResolveMembers[1] EXCEPT !.malformed = TRUE], ResolveMembers[2]>>,
     roles   |-> <<[id |-> "r1", name |-> Player]>>],
    NoGuild }

ResolveTargetTexts ==
  { Bob, <<" ", "B", "O", "B">>, Pat, <<"m", "1">>, <<"M", "1">>, <<"m", "2">>,
    <<" ">>, <<"A">> }

ResolveRoleIds ==
  { [given |-> FALSE, value |-> <<>>], [given |-> TRUE, value |-> <<>>],
    [given |-> TRUE, value |-> <<"r1">>], [given |-> TRUE, value |-> <<"", "r9">>] }

ResolveRoleNames ==
  { [given |-> FALSE, value |-> <<>>], [given |-> TRUE, value |-> <<>>],
    [given |-> TRUE, value |-> <<Player>>],
    [given |-> TRUE, value |-> <<<<" ">>, <<"p", "l", "a", "y", "e", "r", " ">>>>],
    [given |-> TRUE, value |-> <<<<"a">>>>] }

ResolveOptions ==
  { [targets |-> t, token |-> "tok", guildId |-> "undefined", roleNames |-> rn,
     roleIds |-> ri, useId |-> u]
    : t \in UNION {[1..n -> ResolveTargetTexts] : n \in 1..MaxTargets},
      rn \in ResolveRoleNames, ri \in ResolveRoleIds, u \in BOOLEAN }

\* ROLE_NAME is set or not
InitResolve ==
  /\ InitWith({[e \in Events |-> <<[status |-> "REGISTRATION_CLOSED"]>>]},
              {<<>>, Player}, {FALSE})
  /\ league_event_players = ConcRegistrations

\* the answers of GET guilds/g/members/id and of GET users/id
ResolveAnswers ==
  { <<"none", "none">>, <<"dnd", "none">>, <<"fail", "idle">>, <<"throw", "online">>,
    <<"none", "invisible">>, <<"fail", "fail">>, <<"fail", "throw">>,
    <<"offline", "online">> }

\* validatePlayersPresence(options) runs to its end: the roster arrives with
\* presences or, failing that, without; the roles arrive.
Resolve_Call ==
  /\ vp.pc = "idle"
  /\ \E options \in ResolveOptions, guild \in ResolveGuilds,
        withPresences \in BOOLEAN, answers \in ResolveAnswers :
       \E api \in {Api(withPresences, TRUE, TRUE, guild, answers)} :
         \E out \in {validatePlayersPresence(options, processEnv, api)} :
           vp' = [pc |-> "done", options |-> options, api |-> api, out |-> out]
  /\ UNCHANGED <<db, rd, log, ck, bulk, io>>

\* The caller takes the results.
Resolve_Return ==
  /\ vp.pc = "done"
  /\ vp' = IdleVp
  /\ UNCHANGED <<db, rd, log, ck, bulk, io>>

NextResolve == Resolve_Call \/ Resolve_Return

SpecResolve == InitResolve /\ [][NextResolve]_vars

(***************************************************************************)
(* The precondition checks called directly                                 *)
(***************************************************************************)

\* the users and events a check is asked about: registered or not
ReadUsers  == Users \cup {"nobody"}
ReadEvents == Events \cup {"e9"}

Called(fn, userId, eventId, o1, o2, out) ==
  [pc |-> "done", fn |-> fn, userId |-> userId, eventId |-> eventId, o1 |-> o1,
   o2 |-> o2, out |-> out]

\* checkPaymentStatus(supabase, userId, eventId) runs to its end
Read_Payment ==
  /\ rd.pc = "idle"
  /\ \E userId \in ReadUsers, eventId \in ReadEvents, o1 \in QueryOutcomes,
        o2 \in QueryOutcomes :
       \E out \in {checkPaymentStatus(league_event_players, league_payments,
                                      userId, eventId, o1, o2)} :
         rd' = Called("checkPaymentStatus", userId, eventId, o1, o2, out)
  /\ UNCHANGED <<db, vp, log, ck, bulk, io>>

\* checkDecklistStatus(supabase, userId, eventId) runs to its end
Read_Decklist ==
  /\ rd.pc = "idle"
  /\ \E userId \in ReadUsers, eventId \in ReadEvents, o \in QueryOutcomes :
       \E out \in {checkDecklistStatus(league_event_players, userId, eventId, o)} :
         rd' = Called("checkDecklistStatus", userId, eventId, o, "", out)
  /\ UNCHANGED <<db, vp, log, ck, bulk, io>>

\* The caller takes the answer.
Read_Return ==
  /\ rd.pc = "done"
  /\ rd' = IdleRd
  /\ UNCHANGED <<db, vp, log, ck, bulk, io>>

NextReads == Read_Payment \/ Read_Decklist \/ Read_Return

SpecReads == Init /\ [][NextReads]_vars

(***************************************************************************)
(* Properties                                                              *)
(***************************************************************************)

\* C1 (Spec): a performCheckin with both ids and without force that returns
\* its details has success = TRUE exactly when hasPaid, hasDecklist, isMember
\* and isRole are all TRUE; when one of the four is FALSE, success and
\* statusUpdated are FALSE; statusUpdated is TRUE exactly when the four hold
\* and the write went through.  isPresent occurs in none of the three.
C1_DecisionRule ==
  \A p \in Callers :
    LET c == ck[p]
    IN  (/\ c.pc = "done" /\ ~c.request.force
         /\ c.request.userId # "" /\ c.request.eventId # ""
         /\ c.result.details # <<>>)
        => LET d    == c.result.details[1]
               four == /\ d.hasPaid /\ d.hasDecklist
                       /\ d.discordPresence.isMember /\ d.discordPresence.isRole
           IN  /\ c.result.success <=> four
               /\ ~four => (~c.result.success /\ ~d.statusUpdated /\ c.wrote = <<>>)
               /\ d.statusUpdated <=>
                    (four /\ c.wrote # <<>> /\ c.wrote[1].outcome = "ok")

\* C1: paid, decklist and member, online, but without the role: refused
C1_Witness ==
  \E p \in Callers :
    LET c == ck[p]
    IN  /\ c.pc = "done" /\ ~c.request.force /\ c.result.details # <<>>
        /\ c.result.details[1].hasPaid /\ c.result.details[1].hasDecklist
        /\ c.result.details[1].discordPresence.isMember
        /\ ~c.result.details[1].discordPresence.isRole
        /\ c.result.details[1].discordPresence.isPresent
        /\ ~c.result.success /\ ~c.result.details[1].statusUpdated

\* C2 (SpecEngine): while force is set in neither the single request nor the
\* bulk request, the status write is pending only in an invocation whose own
\* four checks returned TRUE, and an invocation that issued the write
\* reports the four as TRUE.
C2_WriteOnlyWhenChecksPassed ==
  \A p \in Callers :
    LET c == ck[p]
    IN  (~c.request.force /\ ~bulk[p].request.force)
        => /\ c.pc = "write"
                => (/\ c.hasPaid /\ c.hasDecklist
                    /\ c.discordPresence.isMember /\ c.discordPresence.isRole)
           /\ (c.pc = "done" /\ c.wrote # <<>> /\ c.result.details # <<>>)
                => (/\ c.result.details[1].hasPaid
                    /\ c.result.details[1].hasDecklist
                    /\ c.result.details[1].discordPresence.isMember
                    /\ c.result.details[1].discordPresence.isRole)
           /\ (c.pc = "done" /\ c.result.details # <<>>
               /\ c.result.details[1].statusUpdated) => c.wrote # <<>>

\* C2: inside a bulk run without force, a player's write has gone through
C2_Witness ==
  \E p \in Callers :
    /\ bulk[p].pc = "player" /\ ~bulk[p].request.force
    /\ ck[p].pc = "done" /\ ck[p].wrote # <<>>
    /\ ck[p].wrote[1].before # ck[p].wrote[1].after
    /\ ck[p].result.success

\* C3 (Spec): a performCheckin with force that reaches its decision issues
\* the status write whatever the four checks returned; statusUpdated is
\* whether that write went through, and success is allConditionsMet or
\* statusUpdated.  With the four not all TRUE, success is TRUE exactly when
\* the write went through.  (With the four all TRUE the run is a success
\* whatever the write did, as the formula for success says.)
C3_Force ==
  \A p \in Callers :
    LET c == ck[p]
    IN  /\ (c.pc = "done" /\ c.request.force /\ c.result.details # <<>>)
           => LET d    == c.result.details[1]
                  four == /\ d.hasPaid /\ d.hasDecklist
                          /\ d.discordPresence.isMember /\ d.discordPresence.isRole
              IN  /\ c.wrote # <<>>
                  /\ d.statusUpdated <=> (c.wrote[1].outcome = "ok")
                  /\ c.result.success <=> (four \/ d.statusUpdated)
                  /\ ~four => (c.result.success <=> (c.wrote[1].outcome = "ok"))
        /\ (c.pc = "done" /\ c.request.force /\ c.wrote # <<>>
            /\ c.wrote[1].outcome = "throw") => ~c.result.success

\* C3: force, none of the four checks passed, the write went through on a
\* stored registration: success
C3_Witness ==
  \E p \in Callers :
    LET c == ck[p]
    IN  /\ c.pc = "done" /\ c.request.force /\ c.result.details # <<>>
        /\ ~c.result.details[1].hasPaid /\ ~c.result.details[1].hasDecklist
        /\ ~c.result.details[1].discordPresence.isMember
        /\ ~c.result.details[1].discordPresence.isRole
        /\ c.result.details[1].statusUpdated /\ c.result.success
        /\ c.wrote[1].before # <<>> /\ c.wrote[1].after[1].status = "CONFIRMED"

\* C4 (SpecEngine): whenever the engine changes a registration, the row was
\* PENDING or CONFIRMED before and is CONFIRMED after.
C4_OnlyPendingOrConfirmedChange ==
  \A p \in Callers :
    (ck[p].wrote # <<>> /\ ck[p].wrote[1].before # ck[p].wrote[1].after)
    => /\ ck[p].wrote[1].before # <<>> /\ ck[p].wrote[1].after # <<>>
       /\ ck[p].wrote[1].before[1].status \in {"PENDING", "CONFIRMED"}
       /\ ck[p].wrote[1].after[1].status = "CONFIRMED"

\* C5 (SpecBulk): a per-player invocation that throws is caught: the run goes
\* on with the next player, started exactly as after a returned result, and
\* returns one entry per roster player, in roster order, each carrying the
\* status the roster query returned; the thrower's entry has success FALSE.
\* The run itself never throws once the roster is loaded.
C5_PerPlayerIsolation ==
  \A p \in Callers :
    LET b == bulk[p]
        StatusOf(e) == IF b.kind = "bulk" THEN e.originalStatus ELSE e.previousStatus
    IN  /\ b.pc = "thrown" => (b.players = <<>> /\ b.results = <<>>)
        /\ b.pc = "player"
             => /\ b.idx \in 1..Len(b.players)
                /\ Len(b.results) = b.idx - 1
                /\ ck[p].pc # "idle"
                /\ ck[p].request.userId = b.players[b.idx].user_id
                /\ ck[p].request.eventId = b.request.eventId
                /\ ck[p].pc = "thrown" => (ck[p].wrote = <<>> /\ ck[p].error # "")
        /\ (b.pc = "done" /\ b.players # <<>>)
             => /\ b.result.success /\ b.result.details # <<>>
                /\ b.result.details[1].totalPlayers = Len(b.players)
                /\ Len(b.result.details[1].results) = Len(b.players)
                /\ \A i \in 1..Len(b.players) :
                     LET e == b.result.details[1].results[i]
                     IN  /\ e.userId = b.players[i].user_id
                         /\ StatusOf(e) = b.players[i].status
                         /\ e.message.text = "createClient failed"
                              => /\ ~e.success
                                 /\ b.kind = "event" => e.newStatus = b.players[i].status

\* C5: of two players the first threw and the second was checked in
C5_Witness ==
  \E p \in Callers :
    LET b == bulk[p]
    IN  /\ b.pc = "done" /\ Len(b.players) = 2 /\ b.result.details # <<>>
        /\ b.result.details[1].results[1].message.text = "createClient failed"
        /\ ~b.result.details[1].results[1].success
        /\ b.result.details[1].results[2].success

\* C6 (SpecBulk): with the stored event in a status other than
\* REGISTRATION_CLOSED and force not set, a bulk run reads the event and
\* nothing else: no roster, no performCheckin, no Discord request, no write;
\* having loaded the event it returns success FALSE naming the status.
C6_EventStatusGate ==
  \A p \in Callers :
    LET b     == bulk[p]
        event == Lookup(league_events, b.request.eventId)
    IN  (/\ b.pc # "idle" /\ ~b.request.force
         /\ event # <<>> /\ event[1].status # "REGISTRATION_CLOSED")
        => /\ b.pc \in {"event", "done", "thrown"}
           /\ io[p] \subseteq {"read_event"}
           /\ ck[p] = IdleCk
           /\ b.players = <<>> /\ b.results = <<>>
           /\ b.pc = "done"
                => /\ ~b.result.success /\ b.result.details = <<>>
                   /\ b.result.message.text
                        \in {"Event status is ${event.status}, expected REGISTRATION_CLOSED",
                             "Event not found",
                             "Bulk checkin process failed due to internal error",
                             "Event checkin process failed due to internal error"}
                   /\ b.result.message.text
                        = "Event status is ${event.status}, expected REGISTRATION_CLOSED"
                        => b.result.message.status = event[1].status

\* C6: the run on an open event has returned its refusal
C6_Witness ==
  \E p \in Callers :
    LET b == bulk[p]
    IN  /\ b.pc = "done" /\ ~b.request.force /\ ~b.result.success
        /\ b.result.message.text
             = "Event status is ${event.status}, expected REGISTRATION_CLOSED"
        /\ b.result.message.status = "REGISTRATION_OPEN"
        /\ io[p] = {"read_event"} /\ ck[p] = IdleCk

\* C7 as stated (SpecBulk): every per-player performCheckin of a bulk run
\* runs with the bulk request's force.
C7_ForceInherited ==
  \A p \in Callers :
    bulk[p].pc = "player" => ck[p].request.force = bulk[p].request.force

\* C7 (SpecBulk): every per-player performCheckin of a bulk run runs without
\* force, whatever the bulk request's force, so that its write is pending
\* only when its own four checks returned TRUE; the bulk request's force
\* opens the event-status gate only.
C7_ForceNotInherited ==
  \A p \in Callers :
    LET b == bulk[p]
        c == ck[p]
    IN  /\ b.pc = "player"
             => /\ ~c.request.force
                /\ c.pc = "write"
                     => (/\ c.hasPaid /\ c.hasDecklist
                         /\ c.discordPresence.isMember /\ c.discordPresence.isRole)
        /\ (b.pc \in {"roster", "player"}
            /\ b.event[1].status # "REGISTRATION_CLOSED") => b.request.force

\* C7: in a bulk run with force, a player whose checks failed is refused
\* and no write is issued for it
C7_Witness ==
  \E p \in Callers :
    /\ bulk[p].pc = "player" /\ bulk[p].request.force
    /\ ck[p].pc = "done" /\ ~ck[p].result.success
    /\ ck[p].result.details # <<>> /\ ck[p].wrote = <<>>

\* C8 (Spec): where performCheckin is about to resolve presence with a token
\* and a guild id, an answer of Discord in which both member-list requests
\* or the role-list request fail makes validatePlayersPresence throw, with no
\* result for any target; and a performCheckin whose presence resolution
\* threw goes on with isMember, isRole and isPresent FALSE, is never
\* rejected, and returns its details and no error unless the status write
\* throws.
C8_PrimaryFetchFailure ==
  \A p \in Callers :
    LET c == ck[p]
    IN  /\ (/\ c.pc = "discord"
            /\ c.config.discordBotToken \notin {"undefined", ""}
            /\ c.config.discordGuildId \notin {"undefined", ""})
           => \A g \in Guilds, w \in BOOLEAN, pl \in BOOLEAN, ro \in BOOLEAN :
                LET o == PresenceOptions(c)
                    r == validatePlayersPresence(
                           [targets |-> <<o.target, Pat>>, token |-> o.token,
                            guildId |-> o.guildId, roleNames |-> o.roleNames,
                            roleIds |-> o.roleIds, useId |-> o.useId],
                           processEnv, Api(w, pl, ro, g, <<"online", "online">>))
                IN  /\ ((~w /\ ~pl) \/ ~ro) => (r.thrown /\ r.results = <<>>)
                    /\ (~w /\ ~pl) => r.error = "Failed to fetch guild members"
                    /\ ((w \/ pl) /\ ~ro) => r.error = "Failed to fetch guild roles"
                    /\ ((w \/ pl) /\ ro) => (~r.thrown /\ Len(r.results) = 2)
        /\ c.presenceError # ""
           => /\ c.pc \in {"write", "done"}
              /\ c.pc = "write" => c.discordPresence = NoPresence
              /\ c.pc = "done"
                   => \/ /\ c.result.details # <<>> /\ c.result.error = ""
                         /\ c.result.details[1].discordPresence = NoPresence
                      \/ /\ c.wrote # <<>> /\ c.wrote[1].outcome = "throw"
                         /\ c.result.error = "updatePlayerStatus"

\* C8: the member list could not be fetched; the result reports payment and
\* decklist as found and the player as no member
C8_Witness ==
  \E p \in Callers :
    LET c == ck[p]
    IN  /\ c.pc = "done" /\ c.presenceError = "Failed to fetch guild members"
        /\ c.result.details # <<>> /\ c.result.error = ""
        /\ c.result.details[1].hasPaid /\ c.result.details[1].hasDecklist
        /\ c.result.details[1].discordPresence = NoPresence
        /\ ~c.result.success

\* C9 (Spec): no performCheckin and no bulk run ends rejected.
C9_NoExceptionEscapes ==
  \A p \in Callers : ck[p].pc # "thrown" /\ bulk[p].pc # "thrown"

\* C10 (Spec): a performCheckin whose userId or eventId is empty has returned
\* success FALSE at once, having made no read, no Discord request and no
\* write.
C10_MissingIds ==
  \A p \in Callers :
    LET c == ck[p]
    IN  (c.pc # "idle" /\ (c.request.userId = "" \/ c.request.eventId = ""))
        => /\ c.pc = "done"
           /\ ~c.result.success
           /\ c.result.message.text = "Missing userId or eventId"
           /\ c.result.details = <<>>
           /\ io[p] = {} /\ c.wrote = <<>>

\* C10: the call without a userId has returned
C10_Witness ==
  \E p \in Callers :
    /\ ck[p].pc = "done"
    /\ ck[p].request.userId = "" /\ ck[p].request.eventId = "e1"
    /\ ~ck[p].result.success /\ io[p] = {}

\* C11 (Spec): a performCheckin on a (userId, eventId) for which
\* league_event_players holds no row has returned success FALSE and, where
\* it reports details, statusUpdated FALSE, with or without force.
C11_NoRowIsFailure ==
  \A p \in Callers :
    LET c == ck[p]
    IN  (/\ c.pc = "done"
         /\ c.request.userId # "" /\ c.request.eventId # ""
         /\ Lookup(league_event_players,
                   <<c.request.userId, c.request.eventId>>) = <<>>)
        => /\ ~c.result.success
           /\ c.result.details # <<>> => ~c.result.details[1].statusUpdated

\* C12 (SpecBulk): in the details of a bulk run, results has one entry per
\* roster player in roster order, totalPlayers is the roster size and the
\* length of results, successfulCheckins (confirmedPlayers) is the number of
\* entries with success TRUE, every entry carries the status its player had
\* in the roster as loaded, and in performEventCheckin confirmedPlayers +
\* failedPlayers = processedPlayers = totalPlayers.  The running counts
\* agree with the entries pushed so far.
C12_AggregateConsistent ==
  \A p \in Callers :
    LET b == bulk[p]
        Successes(rs) == Cardinality({i \in 1..Len(rs) : rs[i].success})
    IN  /\ b.pc = "player"
             => /\ b.successCount = Successes(b.results)
                /\ b.successCount + b.failedCount = Len(b.results)
        /\ (b.pc = "done" /\ b.result.details # <<>>)
             => LET d == b.result.details[1]
                IN  /\ d.totalPlayers = Len(b.players)
                    /\ Len(d.results) = d.totalPlayers
                    /\ \A i \in 1..Len(d.results) :
                         /\ d.results[i].userId = b.players[i].user_id
                         /\ IF b.kind = "bulk"
                              THEN d.results[i].originalStatus = b.players[i].status
                              ELSE d.results[i].previousStatus = b.players[i].status
                    /\ \A i, j \in 1..Len(d.results) :
                         i # j => d.results[i].userId # d.results[j].userId
                    /\ b.kind = "bulk"
                         => d.successfulCheckins = Successes(d.results)
                    /\ b.kind = "event"
                         => /\ d.confirmedPlayers = Successes(d.results)
                            /\ d.processedPlayers = d.totalPlayers
                            /\ d.confirmedPlayers + d.failedPlayers
                                 = d.processedPlayers

\* C12: an event run over two players, one confirmed and one refused
C12_Witness ==
  \E p \in Callers :
    LET b == bulk[p]
    IN  /\ b.pc = "done" /\ b.kind = "event" /\ b.result.details # <<>>
        /\ b.result.details[1].totalPlayers = 2
        /\ b.result.details[1].confirmedPlayers = 1
        /\ b.result.details[1].failedPlayers = 1
        /\ b.result.details[1].results[1].success
        /\ ~b.result.details[1].results[2].success

\* C13 (SpecBulk): a bulk run that went through its per-player loop returns
\* success TRUE, even when every player failed or threw; it returns success
\* FALSE only having stopped before any player: eventId missing, event not
\* found, status gate, roster query error, or an internal error before the
\* loop.  (A run over an empty roster returns success TRUE as well.)
C13_OverallSuccess ==
  \A p \in Callers :
    LET b == bulk[p]
    IN  b.pc = "done"
        => /\ b.players # <<>> => b.result.success
           /\ b.result.success <=> b.result.details # <<>>
           /\ ~b.result.success
                => /\ b.players = <<>> /\ b.results = <<>>
                   /\ io[p] \subseteq {"read_event", "read_roster"}
                   /\ b.result.message.text
                        \in {"Missing eventId", "Event not found",
                             "Event status is ${event.status}, expected REGISTRATION_CLOSED",
                             "Failed to fetch registered players",
                             "Bulk checkin process failed due to internal error",
                             "Event checkin process failed due to internal error"}

\* C13: of two players one was refused and one threw: overall success
C13_Witness ==
  \E p \in Callers :
    LET b == bulk[p]
    IN  /\ b.pc = "done" /\ b.result.success /\ Len(b.players) = 2
        /\ \A i \in 1..2 : ~b.result.details[1].results[i].success
        /\ \E i \in 1..2 :
             b.result.details[1].results[i].message.text = "createClient failed"
        /\ \E i \in 1..2 :
             b.result.details[1].results[i].message.text = "Checkin failed. Missing: "

\* C14 (SpecBulk): the roster of a bulk run holds the users whose
\* registration for the run's event was PENDING or CONFIRMED at roster load
\* and nobody else: the per-player performCheckin, the entries and every
\* write are for roster players and the run's event; a registration in
\* another status, or absent, is in no roster and keeps its status, and the
\* registrations for other events stay as they were.
C14_RosterFilter ==
  \A p \in Callers :
    LET b      == bulk[p]
        c      == ck[p]
        roster == {b.players[i].user_id : i \in 1..Len(b.players)}
    IN  /\ \A k \in Users \X OtherEvents :
             league_event_players[k] = OtherRegistrations[k]
        /\ \A i \in 1..Len(b.players) :
             /\ b.players[i].status \in {"PENDING", "CONFIRMED"}
             /\ Lookup(league_event_players,
                       <<b.players[i].user_id, b.request.eventId>>) # <<>>
        /\ \A i \in 1..Len(b.results) : b.results[i].userId \in roster
        /\ c.pc # "idle"
             => /\ c.request.userId \in roster
                /\ c.request.eventId = b.request.eventId
        /\ c.wrote # <<>>
             => /\ c.wrote[1].key[1] \in roster
                /\ c.wrote[1].key[2] = b.request.eventId
                /\ c.wrote[1].before # <<>>
                /\ c.wrote[1].before[1].status \in {"PENDING", "CONFIRMED"}
        /\ (b.pc \in {"player", "done"} /\ b.players # <<>>)
             => \A u \in Users :
                  LET row == Lookup(league_event_players, <<u, b.request.eventId>>)
                  IN  (row = <<>> \/ row[1].status \notin {"PENDING", "CONFIRMED"})
                      => u \notin roster

\* C14: the run is over; the cancelled registration of u2 was left out and
\* is still cancelled, u1 was checked in
C14_Witness ==
  \E p \in Callers :
    LET b == bulk[p]
    IN  /\ b.pc = "done" /\ Len(b.players) = 1 /\ b.players[1].user_id = "u1"
        /\ b.result.details # <<>>
        /\ Len(b.result.details[1].results) = 1
        /\ b.result.details[1].results[1].success
        /\ league_event_players[<<"u2", "e1">>] # <<>>
        /\ league_event_players[<<"u2", "e1">>][1].status = "CANCELLED"

\* C15 (SpecBulk): on an event that has no PENDING or CONFIRMED
\* registration, a bulk run starts no performCheckin and makes no Discord
\* request and no write; when it has read the roster and the query did not
\* fail, it returns success TRUE with totalPlayers = 0, successfulCheckins
\* (confirmedPlayers, failedPlayers, processedPlayers) = 0, no result entry
\* and no error.
C15_EmptyRoster ==
  \A p \in Callers :
    LET b == bulk[p]
    IN  (/\ b.pc # "idle" /\ b.request.eventId # ""
         /\ \A u \in Users :
              LET row == Lookup(league_event_players, <<u, b.request.eventId>>)
              IN  row = <<>> \/ row[1].status \notin {"PENDING", "CONFIRMED"})
        => /\ ck[p] = IdleCk
           /\ io[p] \subseteq {"read_event", "read_roster"}
           /\ b.players = <<>> /\ b.results = <<>>
           /\ (/\ b.pc = "done" /\ "read_roster" \in io[p]
               /\ b.result.message.text
                    \notin {"Failed to fetch registered players",
                            "Bulk checkin process failed due to internal error",
                            "Event checkin process failed due to internal error"})
              => /\ b.result.success /\ b.result.error = ""
                 /\ b.result.details # <<>>
                 /\ b.result.details[1].totalPlayers = 0
                 /\ b.result.details[1].results = <<>>
                 /\ b.kind = "bulk" => b.result.details[1].successfulCheckins = 0
                 /\ b.kind = "event"
                      => /\ b.result.details[1].processedPlayers = 0
                         /\ b.result.details[1].confirmedPlayers = 0
                         /\ b.result.details[1].failedPlayers = 0

\* C15: the run on a closed event whose only registrations are cancelled or
\* absent has returned
C15_Witness ==
  \E p \in Callers :
    LET b == bulk[p]
    IN  /\ b.pc = "done" /\ b.result.success /\ b.result.error = ""
        /\ b.result.details # <<>> /\ b.result.details[1].totalPlayers = 0
        /\ b.result.details[1].results = <<>>
        /\ b.result.details[1].eventStatus = "REGISTRATION_CLOSED"
        /\ league_event_players[<<"u2", "e1">>][1].status = "CANCELLED"
        /\ io[p] = {"read_event", "read_roster"} /\ ck[p] = IdleCk

C17_MissingConditions ==
  \A p \in Callers :
    LET c == ck[p]
    IN  (/\ c.pc = "done" /\ ~c.request.force
         /\ c.result.details # <<>> /\ ~c.result.success)
        => LET d     == c.result.details[1]
               order == <<"payment", "decklist", "Discord membership",
                          "Discord role">>
               unmet == <<~d.hasPaid, ~d.hasDecklist,
                          ~d.discordPresence.isMember, ~d.discordPresence.isRole>>
               listed[i \in 0..4] ==
                 IF i = 0 THEN <<>>
                 ELSE IF unmet[i] THEN Append(listed[i - 1], order[i])
                 ELSE listed[i - 1]
               missing == c.result.message.missing
           IN  /\ c.result.message.text = "Checkin failed. Missing: "
               /\ missing = listed[4]
               /\ missing # <<>>
               /\ \A i \in 1..4 :
                    unmet[i] <=> \E k \in 1..Len(missing) : missing[k] = order[i]
               /\ \A j, k \in 1..Len(missing) : j # k => missing[j] # missing[k]

\* C17: paid and a member, but no decklist and no role
C17_Witness ==
  \E p \in Callers :
    LET c == ck[p]
    IN  /\ c.pc = "done" /\ ~c.request.force /\ ~c.result.success
        /\ c.result.details # <<>>
        /\ c.result.details[1].hasPaid
        /\ c.result.details[1].discordPresence.isMember
        /\ c.result.message.text = "Checkin failed. Missing: "
        /\ c.result.message.missing = <<"decklist", "Discord role">>

\* C18 (SpecConc): under every interleaving of concurrent performCheckin
\* calls, each registration is the row the runs started from, with status
\* CONFIRMED exactly when some run's write for its (userId, eventId) went
\* through: a write changes the row of its own key only, writes for the
\* same key leave it CONFIRMED whatever their order, and no other value is
\* ever stored.  Each write takes the row as it finds it to the same row
\* with status CONFIRMED, or leaves it when the query fails.
C18_ConcurrentWrites ==
  /\ \A k \in DOMAIN league_event_players :
       league_event_players[k] =
         IF \E p \in Callers : /\ ck[p].wrote # <<>>
                               /\ ck[p].wrote[1].key = k
                               /\ ck[p].wrote[1].outcome = "ok"
           THEN <<[ConcRegistrations[k][1] EXCEPT !.status = "CONFIRMED"]>>
           ELSE ConcRegistrations[k]
  /\ \A p \in Callers :
       ck[p].wrote # <<>>
       => /\ ck[p].wrote[1].key = <<ck[p].request.userId, ck[p].request.eventId>>
          /\ ck[p].wrote[1].before # <<>>
          /\ ck[p].wrote[1].after =
               IF ck[p].wrote[1].outcome = "ok"
                 THEN <<[ck[p].wrote[1].before[1] EXCEPT !.status = "CONFIRMED"]>>
                 ELSE ck[p].wrote[1].before

\* C18: two runs for the same registration both wrote: the first found it
\* PENDING, the second found it CONFIRMED; meanwhile nothing else changed
C18_Witness ==
  /\ ck["c1"].pc = "done" /\ ck["c2"].pc = "done"
  /\ ck["c1"].wrote # <<>> /\ ck["c2"].wrote # <<>>
  /\ ck["c1"].wrote[1].key = <<"u1", "e1">>
  /\ ck["c2"].wrote[1].key = <<"u1", "e1">>
  /\ ck["c1"].wrote[1].outcome = "ok" /\ ck["c2"].wrote[1].outcome = "ok"
  /\ ck["c1"].wrote[1].before[1].status = "PENDING"
  /\ ck["c2"].wrote[1].before[1].status = "CONFIRMED"
  /\ league_event_players[<<"u1", "e1">>][1].status = "CONFIRMED"
  /\ league_event_players[<<"u2", "e1">>] = ConcRegistrations[<<"u2", "e1">>]


\* C19: resolving one target against the fetched roster selects the first
\* member, in roster order, whose id equals the target (useId) or, otherwise,
\* one of whose username, nickname or global name, trimmed and lower-cased,
\* equals the trimmed, lower-cased target.  If no member answers, the result
\* is isMember, isRole and isPresent false with the target, as given, as
\* username.  A name a member does not have is no name to compare with; a
\* target whose resolution failed after the selection has the error result.
C19_TargetMatching ==
  vp.pc = "done" /\ ~vp.out.thrown =>
    \A i \in 1..Len(vp.options.targets) :
      LET target  == vp.options.targets[i]
          members == vp.api.guild.members
          result  == vp.out.results[i]
          Names(j) == {members[j].username, members[j].nick,
                       members[j].globalName} \ {<<>>}
          answering ==
            {j \in 1..Len(members) :
               IF vp.options.useId THEN members[j].id = target
               ELSE \E name \in Names(j) :
                      toLowerCase(trim(name)) = toLowerCase(trim(target))}
      IN  /\ result.target = target
          /\ IF answering = {}
               THEN /\ ~result.isMember /\ ~result.isRole /\ ~result.isPresent
                    /\ result.username = target
               ELSE \E j \in answering :
                      /\ \A k \in answering : j <= k
                      /\ result.error # "" \/ result.isMember
                      /\ result.error # "" \/ result.username =
                           (IF members[j].globalName # <<>> THEN members[j].globalName
                            ELSE IF members[j].nick # <<>> THEN members[j].nick
                            ELSE members[j].username)

\* Three members answer to " BOB" and the first of the roster is taken;
\* nobody answers to "A".
C19_Witness ==
  /\ vp.pc = "done" /\ ~vp.out.thrown /\ ~vp.options.useId
  /\ vp.api.guild.members = ResolveMembers
  /\ vp.options.targets = << <<" ", "B", "O", "B">>, <<"A">> >>
  /\ vp.out.results[1].isMember /\ vp.out.results[1].username = Bob
  /\ ~vp.out.results[2].isMember /\ vp.out.results[2].username = <<"A">>


\* The member target i of the finished call resolved to, <<>> if none or if
\* resolving the target failed.
C20_Member(i) ==
  LET target  == vp.options.targets[i]
      members == vp.api.guild.members
      answering ==
        {j \in 1..Len(members) :
           IF vp.options.useId THEN members[j].id = target
           ELSE \E name \in {members[j].username, members[j].nick,
                             members[j].globalName} \ {<<>>} :
                  toLowerCase(trim(name)) = toLowerCase(trim(target))}
  IN  IF answering = {} \/ vp.out.results[i].error # "" THEN <<>>
      ELSE <<members[CHOOSE j \in answering : \A k \in answering : j <= k]>>

\* The role ids and the role names the finished call asks for: those of the
\* options, the names defaulting to ROLE_NAME when the options give none.
C20_RoleIds ==
  Range(IF vp.options.roleIds.given THEN vp.options.roleIds.value ELSE <<>>)

C20_RoleNames ==
  Range(IF vp.options.roleNames.given THEN vp.options.roleNames.value
        ELSE IF processEnv.ROLE_NAME # <<>> THEN <<processEnv.ROLE_NAME>> ELSE <<>>)

\* C20, as the code has it: for a resolved member, isRole is true if and
\* only if some role id of the member is in the requested roleIds, or is the
\* id of a guild role whose name, trimmed and lower-cased, equals a requested
\* role name, trimmed and lower-cased; with no roleIds and no roleNames
\* isRole is false whatever roles the member has.
C20_RoleMatchNormalized ==
  vp.pc = "done" /\ ~vp.out.thrown =>
    \A i \in 1..Len(vp.options.targets) :
      C20_Member(i) # <<>> =>
        LET member == C20_Member(i)[1]
            roles  == vp.api.guild.roles
        IN  /\ vp.out.results[i].isRole <=>
                 \E k \in 1..Len(member.roles) :
                   \/ member.roles[k] \in C20_RoleIds
                   \/ \E g \in 1..Len(roles), name \in C20_RoleNames :
                        /\ roles[g].id = member.roles[k]
                        /\ toLowerCase(trim(roles[g].name)) = toLowerCase(trim(name))
            /\ C20_RoleIds = {} /\ C20_RoleNames = {} => ~vp.out.results[i].isRole

\* C20, as stated: the role's name equals a requested role name up to case.
C20_RoleMatchCaseOnly ==
  vp.pc = "done" /\ ~vp.out.thrown =>
    \A i \in 1..Len(vp.options.targets) :
      C20_Member(i) # <<>> =>
        LET member == C20_Member(i)[1]
            roles  == vp.api.guild.roles
        IN  /\ vp.out.results[i].isRole <=>
                 \E k \in 1..Len(member.roles) :
                   \/ member.roles[k] \in C20_RoleIds
                   \/ \E g \in 1..Len(roles), name \in C20_RoleNames :
                        /\ roles[g].id = member.roles[k]
                        /\ toLowerCase(roles[g].name) = toLowerCase(name)
            /\ C20_RoleIds = {} /\ C20_RoleNames = {} => ~vp.out.results[i].isRole

\* Bob holds r1, named "Player"; the call asks for "player " and for no role
\* id, and Bob has the role.
C20_Witness ==
  /\ vp.pc = "done" /\ ~vp.out.thrown
  /\ vp.options.targets = <<Bob>> /\ ~vp.options.useId
  /\ C20_Member(1) = <<ResolveMembers[1]>>
  /\ C20_RoleIds = {}
  /\ C20_RoleNames = {<<" ">>, <<"p", "l", "a", "y", "e", "r", " ">>}
  /\ [id |-> "r1", name |-> Player] \in Range(vp.api.guild.roles)
  /\ vp.out.results[1].isRole


\* The presence the roster entry of a member carries in the finished call,
\* "none" if it carries none: the roster fetched without presences has none.
C21_Embedded(member) ==
  IF vp.api.withPresences THEN member.presence ELSE "none"

\* C21: for a resolved member, isPresent is true if and only if the
\* effective status is online, idle or dnd; the effective status is the
\* presence embedded in the roster entry if there is one, otherwise the
\* result of the per-member fallback fetch, otherwise unknown.
C21_PresentIffOnline ==
  vp.pc = "done" /\ ~vp.out.thrown =>
    \A i \in 1..Len(vp.options.targets) :
      C20_Member(i) # <<>> =>
        LET member   == C20_Member(i)[1]
            fallback == fetchMemberPresence(vp.api, member.id).presence
            status   == IF C21_Embedded(member) # "none" THEN C21_Embedded(member)
                        ELSE IF fallback # "null" THEN fallback
                        ELSE "unknown"
        IN  /\ vp.out.results[i].isPresent <=> status \in {"online", "idle", "dnd"}
            /\ status \in {"offline", "invisible", "unknown"}
                 => ~vp.out.results[i].isPresent

\* In a roster fetched with presences Pat is idle and the member answering
\* to "Bob" carries no presence; the user endpoint says idle; both are present.
C21_Witness ==
  /\ vp.pc = "done" /\ ~vp.out.thrown /\ ~vp.options.useId
  /\ vp.api.withPresences
  /\ Len(vp.api.guild.members) = 3 /\ vp.api.guild.members[1].presence = "none"
  /\ vp.options.targets = <<Pat, Bob>>
  /\ vp.api.memberEp[<<"m", "3">>] = "fail" /\ vp.api.userEp[<<"m", "3">>] = "idle"
  /\ vp.out.results[1].isMember /\ vp.out.results[1].isPresent
  /\ vp.out.results[2].isMember /\ vp.out.results[2].isPresent

\* C22: a failure of the per-member fallback fetch (a non-OK answer, a
\* rejected fetch, a reply without presence) never aborts the resolution: the
\* call returns, the target's result is the one the same call gives when the
\* fallback succeeds, isMember and isRole included, with isPresent false.
C22_FallbackFailureSwallowed ==
  vp.pc = "done" =>
    \A i \in 1..Len(vp.options.targets) :
      C20_Member(i) # <<>> =>
        LET member == C20_Member(i)[1]
            m == vp.api.memberEp[member.id]
            u == vp.api.userEp[member.id]
            failed == \/ m = "throw"
                      \/ m \in {"fail", "none"} /\ u \in {"fail", "none", "throw"}
            succeeding == [vp.api EXCEPT !.memberEp = [x \in MemberIds |-> "online"]]
            expected == validatePlayersPresence(vp.options, processEnv,
                                                succeeding).results[i]
        IN  C21_Embedded(member) = "none" /\ failed =>
              /\ ~vp.out.thrown
              /\ Len(vp.out.results) = Len(vp.options.targets)
              /\ expected.isMember /\ expected.isPresent
              /\ vp.out.results[i] = [expected EXCEPT !.isPresent = FALSE]

\* Bob holds the requested role r1; the roster came without presences and
\* the member endpoint rejected the fetch: Bob is a member with the role, not
\* present.
C22_Witness ==
  /\ vp.pc = "done" /\ ~vp.out.thrown /\ ~vp.options.useId
  /\ ~vp.api.withPresences
  /\ vp.api.guild.members = ResolveMembers
  /\ vp.options.targets = <<Bob>>
  /\ vp.api.memberEp[<<"m", "1">>] = "throw"
  /\ vp.out.results[1].isMember /\ vp.out.results[1].isRole
  /\ ~vp.out.results[1].isPresent


\* C23: once the members and the roles are fetched, validatePlayersPresence
\* over targets t1..tn returns n results, result i describing ti: it is the
\* result the call gives for ti alone.  An error while resolving one target
\* makes that target's result {isMember, isRole, isPresent false, error};
\* the results of the other targets are what they are without it.
C23_PerTargetResults ==
  vp.pc = "done" /\ ~vp.out.thrown =>
    /\ Len(vp.out.results) = Len(vp.options.targets)
    /\ \A i \in 1..Len(vp.options.targets) :
         LET alone == validatePlayersPresence(
                        [vp.options EXCEPT !.targets = <<vp.options.targets[i]>>],
                        processEnv, vp.api)
             result == vp.out.results[i]
         IN  /\ result.target = vp.options.targets[i]
             /\ ~alone.thrown /\ result = alone.results[1]
             /\ result.error # "" =>
                  /\ ~result.isMember /\ ~result.isRole /\ ~result.isPresent
                  /\ result.username = vp.options.targets[i]

\* Bob's roster entry is broken and the role check on it fails; Pat, next in
\* the list of targets, is resolved as a member.
C23_Witness ==
  /\ vp.pc = "done" /\ ~vp.out.thrown /\ ~vp.options.useId
  /\ vp.options.targets = <<Bob, Pat>>
  /\ vp.out.results[1].error # "" /\ ~vp.out.results[1].isMember
  /\ vp.out.results[2].error = "" /\ vp.out.results[2].isMember
  /\ vp.out.results[2].target = Pat


\* C24: checkPaymentStatus returns true if and only if the player-event row
\* exists and its payment_status is PAID or FREE, or it links to a payment
\* record whose status is COMPLETE; a missing row or a query that answers
\* with an error yields false, not an exception.
C24_PaymentCheck ==
  rd.pc = "done" /\ rd.fn = "checkPaymentStatus" =>
    LET row    == Lookup(league_event_players, <<rd.userId, rd.eventId>>)
        paid   == row # <<>> /\ row[1].payment_status \in {"PAID", "FREE"}
        second == rd.o1 = "ok" /\ row # <<>> /\ ~paid /\ row[1].league_payment_id # ""
        linked == /\ row # <<>> /\ row[1].league_payment_id # ""
                  /\ Lookup(league_payments, row[1].league_payment_id) # <<>>
                  /\ league_payments[row[1].league_payment_id][1].status = "COMPLETE"
        readError == rd.o1 = "error" \/ (second /\ rd.o2 = "error")
        rejected  == rd.o1 = "throw" \/ (second /\ rd.o2 = "throw")
    IN  ~rejected =>
          /\ ~rd.out.thrown
          /\ rd.out.value <=> ~readError /\ (paid \/ linked)
          /\ row = <<>> \/ readError => ~rd.out.value

\* u2's registration is PENDING for payment and links to the COMPLETE
\* payment record: paid.
C24_Witness ==
  /\ rd.pc = "done" /\ rd.fn = "checkPaymentStatus"
  /\ rd.userId = "u2" /\ rd.eventId = "e1" /\ rd.o1 = "ok" /\ rd.o2 = "ok"
  /\ league_event_players[<<"u2", "e1">>][1].payment_status = "PENDING"
  /\ league_event_players[<<"u2", "e1">>][1].league_payment_id = "payC"
  /\ ~rd.out.thrown /\ rd.out.value


\* The handle the tables hold for a user: that of league_players if it has
\* one, else that of app_users, else <<>> (null).
C25_StoredHandle(userId) ==
  LET leaguePlayer == Lookup(league_players, userId)
      appUser      == Lookup(app_users, userId)
  IN  IF leaguePlayer # <<>> /\ leaguePlayer[1].discord_handle # <<>>
        THEN leaguePlayer[1].discord_handle
      ELSE IF appUser # <<>> /\ appUser[1].discord_handle # <<>>
        THEN appUser[1].discord_handle
      ELSE <<>>

C26_Count(requests, x) == Cardinality({i \in 1..Len(requests) : requests[i] = x})

C27_OneAtATime ==
  /\ [](\A p \in Callers :
          bulk[p].pc = "player" =>
            /\ bulk[p].idx \in 1..Len(bulk[p].players)
            /\ ck[p].pc # "idle"
            /\ ck[p].request.userId = bulk[p].players[bulk[p].idx].user_id
            /\ Len(bulk[p].results) = bulk[p].idx - 1
            /\ \A i \in 1..Len(bulk[p].results) :
                 bulk[p].results[i].userId = bulk[p].players[i].user_id)
  /\ [][\A p \in Callers :
          bulk[p].pc = "player" /\ bulk'[p].pc = "player"
            /\ bulk'[p].idx # bulk[p].idx =>
            /\ bulk'[p].idx = bulk[p].idx + 1
            /\ ck[p].pc \in {"done", "thrown"}
            /\ ck'[p].pc \in {"pay", "done", "thrown"}]_vars

\* The second player's check-in is at its Discord call; the first player's
\* entry is pushed.
C27_Witness ==
  /\ bulk["c1"].pc = "player" /\ bulk["c1"].idx = 2
  /\ Len(bulk["c1"].results) = 1
  /\ ck["c1"].pc = "discord"
  /\ ck["c1"].request.userId = bulk["c1"].players[2].user_id


\* C28 (SpecEngine, one caller, no other writer): when performCheckin has
\* returned success TRUE the registration's stored status is CONFIRMED, and
\* every entry performEventCheckin has pushed carries as newStatus the
\* stored status of its player.
C28_ConfirmationStored ==
  \A p \in Callers :
    LET c == ck[p]
        b == bulk[p]
        stored(userId, eventId) == Lookup(league_event_players, <<userId, eventId>>)
    IN  /\ c.pc = "done" /\ c.result.success =>
             /\ stored(c.request.userId, c.request.eventId) # <<>>
             /\ stored(c.request.userId, c.request.eventId)[1].status = "CONFIRMED"
        /\ b.pc = "player" /\ b.kind = "event" =>
             \A i \in 1..Len(b.results) :
               /\ stored(b.results[i].userId, b.request.eventId) # <<>>
               /\ b.results[i].newStatus
                    = stored(b.results[i].userId, b.request.eventId)[1].status


(***************************************************************************)
(* performCheckin while the payment and registration flows of the          *)
(* application write the registration it is checking                       *)
(***************************************************************************)

\* what a payment flow leaves in payment_status, a registration flow in
\* decklist
ExternalPaymentStatuses == {"PAID", "PENDING"}
ExternalDecklists == {<<>>, <<"d">>}

\* A payment or registration flow rewrites the payment status and the
\* decklist of a stored registration; it never touches status.
External_Flow ==
  /\ \E k \in Users \X Events, ps \in ExternalPaymentStatuses,
        d \in ExternalDecklists :
       /\ league_event_players[k] # <<>>
       /\ league_event_players[k][1].payment_status # ps
            \/ league_event_players[k][1].decklist # d
       /\ league_event_players' =
            [league_event_players EXCEPT ![k] =
               <<[@[1] EXCEPT !.payment_status = ps, !.decklist = d]>>]
  /\ UNCHANGED <<league_events, league_payments, league_players, app_users,
                 processEnv, ck, bulk, io, vp, rd, log>>

NextExternal == Next \/ External_Flow

SpecExternal == InitConc /\ [][NextExternal]_vars

\* the payment and the decklist checks, asked of the one registration row
C29_ChecksHold(key, row) ==
  /\ checkPaymentStatus(key :> row, league_payments, key[1], key[2],
                        "ok", "ok").value
  /\ checkDecklistStatus(key :> row, key[1], key[2], "ok").value

\* C29: when a performCheckin without force has written CONFIRMED into a
\* stored registration, the payment status and the decklist that
\* registration held at the moment of the write satisfy the payment and the
\* decklist checks, also when payment and registration flows rewrite the
\* row while the call is in progress.
C29_NoCheckThenWriteGap ==
  \A p \in Callers :
    \A i \in 1..Len(ck[p].wrote) :
      ( /\ ~ck[p].request.force
        /\ ck[p].wrote[i].outcome = "ok"
        /\ ck[p].wrote[i].before # <<>> )
      => C29_ChecksHold(ck[p].wrote[i].key, ck[p].wrote[i].before)


(***************************************************************************)
(* performCheckin with and without a ROLE_NAME default in the environment  *)
(***************************************************************************)

InitRoleDefault ==
  InitWith({[e \in Events |-> <<[status |-> "REGISTRATION_CLOSED"]>>]},
           {<<>>, Player}, {FALSE})

SpecRoleDefault == InitRoleDefault /\ [][Next]_vars

\* caller p's performCheckin is not forced and asks for no role: no
\* config.discordRoleName, no ROLE_NAME default (performCheckin never passes
\* role ids)
C30_NoRoleAsked(p) ==
  /\ ck[p].pc # "idle"
  /\ ~ck[p].request.force
  /\ ck[p].config.discordRoleName = <<>>
  /\ processEnv.ROLE_NAME = <<>>

\* C30 as stated: with no role name configured and no role ids, every
\* performCheckin call without force fails with a message that contains
\* "Discord role".
C30_EveryFailureNamesRole ==
  \A p \in Callers :
    (C30_NoRoleAsked(p) /\ ck[p].pc = "done")
    => /\ ~ck[p].result.success
       /\ "Discord role" \in Range(ck[p].result.message.missing)

\* C30: with no role name configured and no role ids, isRole is false for
\* every player, no performCheckin call without force is accepted or writes
\* a status, and every such call that returns a decision (ids given, no
\* internal error) has the message "Checkin failed. Missing: ..." with
\* "Discord role" in its list.
C30_NeverAcceptedWithoutRole ==
  \A p \in Callers :
    C30_NoRoleAsked(p)
    => /\ ck[p].pc # "write" /\ ck[p].wrote = <<>>
       /\ ~ck[p].discordPresence.isRole
       /\ ck[p].pc = "done"
            => /\ ~ck[p].result.success
               /\ ck[p].result.details # <<>>
                    => /\ ~ck[p].result.details[1].discordPresence.isRole
                       /\ ~ck[p].result.details[1].statusUpdated
                       /\ ck[p].result.message.text = "Checkin failed. Missing: "
                       /\ "Discord role" \in Range(ck[p].result.message.missing)

\* a paid player with a decklist, found in the guild, is refused for the
\* role alone
C30_Witness ==
  \E p \in Callers :
    /\ C30_NoRoleAsked(p) /\ ck[p].pc = "done"
    /\ ck[p].result.details # <<>>
    /\ ck[p].result.details[1].hasPaid /\ ck[p].result.details[1].hasDecklist
    /\ ck[p].result.details[1].discordPresence.isMember
    /\ ck[p].result.message.missing = <<"Discord role">>


=============================================================================
